---- MODULE Spec2Model ----
(***************************************************************************)
(* Job lifecycle and tool-call loop of func-orchestr-mcp.                  *)
(*                                                                         *)
(* Two state machines share this module:                                   *)
(*   Spec      the job record store, the work queues and the two queue     *)
(*             workers (mcp_process_worker in app/mcp_worker.py and        *)
(*             queue_trigger in app/blueprint.py);                         *)
(*   LoopSpec  one call of run_responses_with_tools                        *)
(*             (app/services/conversation.py).                             *)
(*                                                                         *)
(* Texts are sequences of tokens: "" is << >>, f"Error: {e}" is            *)
(* <<"Error:">> \o e.  Python None of an Optional[str] is NoneText, None   *)
(* of an Optional[list] is NoneList, None of a timestamp is NoTime.        *)
(* Job records are Python dicts: functions whose DOMAIN is the key set.    *)
(* The blob store is taken to be reliable (an upload that is attempted     *)
(* succeeds); a missing blob makes a download fail as in the code.         *)
(***************************************************************************)
EXTENDS Integers, Sequences, FiniteSets, TLC

\* ------------------------------------------------------------------ bounds
MaxClock      == 2   \* wall-clock readings 1..MaxClock
MaxDeliveries == 2   \* deliveries of one queue message
MaxDeltas     == 2   \* text increments of one streamed generation
MaxToolCalls  == 2   \* tool calls in one chat-completions answer

JobIds == {"job1"}

\* --------------------------------------------------------------- sentinels
NoneText == <<"<None>">>
NoneList == <<"<NoneList>">>
NoneStr  == "<None>"
NoTime   == 0

EmptyDict == [k \in {} |-> 0]

Has(d, k) == k \in DOMAIN d
Get(d, k, default) == IF k \in DOMAIN d THEN d[k] ELSE default

\* Python truthiness of an Optional[str]
Truthy(t) == t # NoneText /\ t # << >>
\* str(x) inside an f-string
Str(t) == IF t = NoneText THEN <<"None">> ELSE t
\* x or ""
OrEmpty(t) == IF Truthy(t) THEN t ELSE << >>

ErrorMarker == "Error:"
StartsWith(t, marker) == Len(t) >= 1 /\ t[1] = marker

RECURSIVE Join(_)
\* ", ".join(names)
Join(names) ==
    IF names = << >> THEN << >>
    ELSE IF Len(names) = 1 THEN <<names[1]>>
    ELSE <<names[1], ", ">> \o Join(Tail(names))

SeqToSet(s) == {s[i] : i \in 1..Len(s)}

\* ------------------------------------------------------------ the inputs
ExcMsg   == <<"boom">>
Answer   == <<"answer">>
Contents == {NoneText, << >>, Answer, <<ErrorMarker, "boom">>}

EnvModel  == "env-model"
BodyModel == "body-model"

\* an allow-list given as one string with commas
CommaList == "init_user, list_templates_http"

AllowedChoices == {NoneList, << >>, <<"*">>, <<"search_web">>, <<CommaList>>}
StreamChoices  == {NoneStr, "True", "False", "false"}

BuiltinTools ==
    << [type |-> "function", name |-> "search_web"],
       [type |-> "function", name |-> "convert_word_to_pdf"],
       [type |-> "function", name |-> "init_user"],
       [type |-> "function", name |-> "list_images"],
       [type |-> "function", name |-> "list_shared_templates"],
       [type |-> "function", name |-> "list_templates_http"] >>

\* the mcp tool configuration carries no "name" key
McpToolCfg == [type |-> "mcp", name |-> NoneStr]

VARIABLES
    clock,      \* time.gmtime()
    blobs,      \* container "jobs": job id -> job record, for the blobs that exist
    queue,      \* job id -> the job's queue message
    w,          \* job id -> locals of the worker invocation processing it
    lastSet,    \* keys the caller of the latest record write passed explicitly
    lp          \* locals of one run_responses_with_tools call

vars == <<clock, blobs, queue, w, lastSet, lp>>

\* ------------------------------------------------------- job record writes
\* the arguments of one _update_job_status call, with the defaults of its signature
Call(status, progress, message) ==
    [status |-> status, progress |-> progress, message |-> message,
     tool |-> << >>, partial_text |-> << >>, final_text |-> << >>,
     created_at |-> NoTime, selected_model |-> "", mode |-> "",
     used_tools |-> NoneList]

\* a merge that would add the tools of a call to the ones already recorded
UpdateJobStatusAdding(existing, a, now) ==
    [status |-> a.status, progress |-> a.progress, message |-> a.message,
     tool |-> a.tool, partial_text |-> a.partial_text, final_text |-> a.final_text,
     updatedAt |-> now,
     used_tools |-> Get(existing, "used_tools", << >>)
                      \o (IF a.used_tools # NoneList THEN a.used_tools ELSE << >>),
     createdAt |-> IF a.created_at # NoTime THEN a.created_at
                   ELSE Get(existing, "createdAt", NoTime),
     selected_model |-> IF a.selected_model # "" THEN a.selected_model
                        ELSE Get(existing, "selected_model", ""),
     mode |-> IF a.mode # "" THEN a.mode ELSE Get(existing, "mode", "")]

\* the payload _update_job_status uploads over the record `existing`
UpdateJobStatus(existing, a, now) ==
    LET base == [status |-> a.status, progress |-> a.progress, message |-> a.message,
                 tool |-> a.tool, partial_text |-> a.partial_text,
                 final_text |-> a.final_text, updatedAt |-> now]
        ut == IF a.used_tools # NoneList THEN "used_tools" :> a.used_tools
              ELSE IF Get(existing, "used_tools", << >>) # << >>
                   THEN "used_tools" :> existing["used_tools"]
                   ELSE EmptyDict
        ca == IF a.created_at # NoTime THEN "createdAt" :> a.created_at
              ELSE IF Get(existing, "createdAt", NoTime) # NoTime
                   THEN "createdAt" :> existing["createdAt"]
                   ELSE EmptyDict
        sm == IF a.selected_model # "" THEN "selected_model" :> a.selected_model
              ELSE IF Get(existing, "selected_model", "") # ""
                   THEN "selected_model" :> existing["selected_model"]
                   ELSE EmptyDict
        md == IF a.mode # "" THEN "mode" :> a.mode
              ELSE IF Get(existing, "mode", "") # ""
                   THEN "mode" :> existing["mode"]
                   ELSE EmptyDict
    IN  base @@ ut @@ ca @@ sm @@ md

\* json.loads(blob_client.download_blob()...) guarded by try/except: {} when it fails
Existing(j) == IF j \in DOMAIN blobs THEN blobs[j] ELSE EmptyDict

\* existing.get("createdAt") of the worker's first read; None when the download fails
ReadCreatedAt(j) == Get(Existing(j), "createdAt", NoTime)

\* upload_blob(..., overwrite=True)
\* an upload to a blob whose name does not depend on the job
UploadShared(j, payload) == [k \in DOMAIN blobs \cup {j} |-> payload]

Upload(j, payload) == (j :> payload) @@ blobs

\* ------------------------------------------------------------ tool catalog
\* single.split(",") with each part stripped, for the comma lists of the model
SplitCommas(single) ==
    IF single = CommaList THEN <<"init_user", "list_templates_http">> ELSE <<single>>

\* normalize_allowed_tools on None or on a list of strings: a one-element list whose
\* string holds commas is split, any other list is kept
NormalizeAllowedTools(raw) ==
    IF raw = NoneList THEN NoneList
    ELSE IF Len(raw) = 1 THEN SplitCommas(raw[1])
    ELSE raw

\* "ok" with a configuration, "none", or "raise" (ValueError)
ResolveMcpConfig(body) ==
    IF ~body.server_url
    THEN IF NormalizeAllowedTools(body.allowed_tools) \in {NoneList, << >>}
         THEN "none" ELSE "raise"
    ELSE IF body.allowed_tools = << >> THEN "none" ELSE "ok"

\* responses_args["tools"] as build_responses_args leaves it
BuildTools(cfg) == (IF cfg = "ok" THEN <<McpToolCfg>> ELSE << >>) \o BuiltinTools

IsNamed(t, names) == t.name # NoneStr /\ t.name \in SeqToSet(names)

\* the allow-list filtering of mcp_process_worker
WorkerFilterTools(tools, raw_allowed) ==
    LET na == NormalizeAllowedTools(raw_allowed)
        given == na # NoneList
        keepSearch == given /\ na # << >>
                        /\ ("*" \in SeqToSet(na) \/ "search_web" \in SeqToSet(na))
        t1 == IF keepSearch THEN tools
              ELSE SelectSeq(tools, LAMBDA t : t.name # "search_web")
    IN  IF given /\ "*" \notin SeqToSet(na)
        THEN SelectSeq(t1, LAMBDA t : IsNamed(t, na))
        ELSE t1

\* str(x).lower() of the stream values of the model
Lower(x) == IF x = "True" THEN "true" ELSE IF x = "False" THEN "false"
            ELSE IF x = NoneStr THEN "none" ELSE x

OnWords == {"1", "true", "yes", "on"}

\* request_stream as queue_trigger computes it the first time
RequestStream1(stream) ==
    IF stream # NoneStr THEN Lower(stream) \in OnWords ELSE TRUE

\* request_stream as queue_trigger recomputes it: str(stream or "true").lower()
RequestStream2(stream) ==
    Lower(IF stream \in {NoneStr, "False"} THEN "true" ELSE stream) \in OnWords

\* the tool filtering of queue_trigger
QueueFilterTools(tools, body) ==
    LET na == NormalizeAllowedTools(body.allowed_tools)
        t1 == IF RequestStream1(body.stream)
              THEN SelectSeq(tools, LAMBDA t : t.type # "function")
              ELSE tools
        rs == RequestStream2(body.stream)
    IN  SelectSeq(t1, LAMBDA t :
            ~(rs /\ t.type = "function")
            /\ ~(na # NoneList /\ t.type = "function" /\ t.name = "search_web"
                 /\ "search_web" \notin SeqToSet(na)))

HasClassicTools(tools) == \E i \in 1..Len(tools) : tools[i].type = "function"
HasTools(tools) == tools # << >>
ClassicNames(tools) == {tools[i].name : i \in {k \in 1..Len(tools) : tools[k].type = "function"}}

\* ------------------------------------------------------------- job workers
CopilotQueue == "mcpjobs-copilot"
PlainQueue   == "mcpjobs"

Terminal == {"completed", "failed", "error"}

\* history of a job's invocations, kept to compare two invocations that follow each
\* other and both ran to their end: the outcome and the record of the first of them,
\* then whether the second had the same outcome.  An invocation that dies in
\* between starts the history again.
NoRun == [ran |-> FALSE, outcome |-> EmptyDict, record |-> EmptyDict, again |-> "none"]

Idle(last) ==
    [pc |-> "idle", created_at |-> NoTime, output_text |-> NoneText,
     tools_used |-> << >>, pending |-> << >>, progress_value |-> 0,
     chunks |-> << >>, startedAt |-> NoTime, exc |-> << >>, last |-> last,
     previous |-> NoRun]

NoMessage ==
    [state |-> "none", queue |-> PlainQueue, type |-> "mcp", dequeued |-> 0,
     body |-> [allowed_tools |-> NoneList, stream |-> NoneStr, server_url |-> FALSE,
               mode |-> "standard"]]

JobInit ==
    /\ clock = 1
    /\ blobs = EmptyDict
    /\ queue = [j \in JobIds |-> NoMessage]
    /\ w = [j \in JobIds |-> Idle("none")]
    /\ lastSet = {}

Tick ==
    /\ clock < MaxClock
    /\ clock' = clock + 1
    /\ UNCHANGED <<blobs, queue, w, lastSet, lp>>

\* A job is accepted the way orchestrate_start and ask_start do it: the record is
\* uploaded queued, then the message {job_id, body, type} is sent.  Messages of the
\* queue "mcpjobs" have the same shape; they are sent from outside the repository.
AcceptJob(j) ==
    /\ queue[j].state = "none"
    /\ j \notin DOMAIN blobs
    /\ \E q \in {PlainQueue, CopilotQueue}, allowed \in AllowedChoices,
          stream \in StreamChoices, url \in BOOLEAN :
        \E type \in (IF q = CopilotQueue THEN {"mcp", "orchestrate", "ask"} ELSE {"mcp"}) :
          /\ q = CopilotQueue => stream = NoneStr
          /\ LET mode == IF type = "orchestrate" THEN "standard" ELSE type
                 payload == [status |-> "queued", progress |-> 0,
                             message |-> <<"preparing">>, tool |-> << >>,
                             partial_text |-> << >>, final_text |-> << >>,
                             mode |-> mode, selected_model |-> BodyModel,
                             createdAt |-> clock, updatedAt |-> clock]
             IN  /\ blobs' = Upload(j, payload)
                 /\ lastSet' = DOMAIN payload
                 /\ queue' = [queue EXCEPT ![j] =
                        [state |-> "visible", queue |-> q, type |-> type, dequeued |-> 0,
                         body |-> [allowed_tools |-> allowed, stream |-> stream,
                                   server_url |-> url, mode |-> mode]]]
    /\ UNCHANGED <<clock, w, lp>>

Delivered(j, q) ==
    /\ queue[j].state = "visible"
    /\ queue[j].queue = q
    /\ queue[j].dequeued < MaxDeliveries
    /\ w[j].pc = "idle"

Dequeue(j) == [queue EXCEPT ![j].state = "inflight", ![j].dequeued = @ + 1]

\* the invocation ends: the message is deleted when the function returned and the
\* delete reached the queue, and becomes visible again otherwise
Finish(j, deleted) == [queue EXCEPT ![j].state = IF deleted THEN "deleted" ELSE "visible"]

\* the fields of a record that hold a time or are computed from one
TimeFields == {"createdAt", "updatedAt", "startedAt", "duration_ms"}
SansTime(record) == [k \in DOMAIN record \ TimeFields |-> record[k]]

\* what the generation service and the tools gave the invocation that now ends:
\* where it ends, its text, the tools it ran, the exception, and whether the
\* exception came after the running write
Outcome(j) ==
    [pc |-> w[j].pc, output_text |-> w[j].output_text, tools_used |-> w[j].tools_used,
     exc |-> w[j].exc, running |-> j \in DOMAIN blobs /\ blobs[j].status = "running"]

\* the locals are dropped when the invocation ends
Ended(j, last, record) ==
    [Idle(last) EXCEPT !.previous =
        IF w[j].previous.ran
        THEN [NoRun EXCEPT !.again =
                 IF Outcome(j) = w[j].previous.outcome THEN "same" ELSE "other"]
        ELSE IF w[j].previous.again = "none"
        THEN [NoRun EXCEPT !.ran = TRUE, !.outcome = Outcome(j),
                           !.record = SansTime(record)]
        ELSE w[j].previous]

Died(j) ==
    [Idle("crashed") EXCEPT !.previous =
        IF w[j].previous.again = "none" THEN NoRun ELSE w[j].previous]

\* mcp_tool_cfg of a copilot job
WorkerCfg(j) ==
    IF queue[j].type = "orchestrate"
    THEN (IF ResolveMcpConfig(queue[j].body) = "ok" THEN "ok" ELSE "none")
    ELSE ResolveMcpConfig(queue[j].body)

WorkerTools(j) == WorkerFilterTools(BuildTools(WorkerCfg(j)), queue[j].body.allowed_tools)

WorkerModel(j) == IF queue[j].type = "ask" THEN BodyModel ELSE EnvModel
WorkerMode(j) == IF queue[j].type = "orchestrate" THEN queue[j].body.mode ELSE queue[j].type

\* one _update_job_status call of the worker of job j
Write(j, a, keys) ==
    /\ blobs' = Upload(j, UpdateJobStatus(Existing(j), a, clock))
    /\ lastSet' = keys \cup {"status", "progress", "message", "updatedAt"}

WithCreated(a, ca) == [a EXCEPT !.created_at = ca]

Raise(j, ca) == [w EXCEPT ![j].pc = "handler", ![j].created_at = ca, ![j].exc = ExcMsg]

McpStart(j) ==
    /\ Delivered(j, CopilotQueue)
    /\ queue' = Dequeue(j)
    /\ LET ca == ReadCreatedAt(j) IN
       \E clientOk \in BOOLEAN :
         IF ~clientOk \/ WorkerCfg(j) = "raise"
         THEN /\ w' = Raise(j, ca)
              /\ UNCHANGED <<blobs, lastSet>>
         ELSE /\ Write(j, [Call("running", 10, <<"Thinking...">>) EXCEPT
                              !.created_at = ca, !.selected_model = WorkerModel(j),
                              !.mode = WorkerMode(j)],
                       {"createdAt", "selected_model", "mode"})
              /\ w' = [w EXCEPT ![j].pc = "branch", ![j].created_at = ca]
    /\ UNCHANGED <<clock, lp>>

McpBranch(j) ==
    /\ w[j].pc = "branch"
    /\ queue[j].queue = CopilotQueue
    /\ LET a == IF HasTools(WorkerTools(j))
                THEN Call("running", 20, <<"I'm thinking ...">>)
                ELSE Call("running", 15, <<"Generating response...">>)
       IN  Write(j, WithCreated(a, w[j].created_at), {"createdAt"})
    /\ w' = [w EXCEPT ![j].pc = "chat"]
    /\ UNCHANGED <<clock, queue, lp>>

ToolCallSeqs(names) ==
    UNION {[1..n -> names] : n \in 0..MaxToolCalls}

RECURSIVE Dedupe(_, _)
\* append each name that is not yet in the list
Dedupe(acc, names) ==
    IF names = << >> THEN acc
    ELSE Dedupe(IF Head(names) \in SeqToSet(acc) THEN acc ELSE Append(acc, Head(names)),
                Tail(names))

McpGenerate(j) ==
    /\ w[j].pc = "chat"
    /\ queue[j].queue = CopilotQueue
    /\ LET tools == WorkerTools(j) IN
       \E ok \in BOOLEAN, content \in Contents :
         IF HasClassicTools(tools)
         THEN \* client.chat.completions.create with the classic tools
              IF ~ok
              THEN /\ w' = Raise(j, w[j].created_at)
                   /\ UNCHANGED <<blobs, lastSet>>
              ELSE \E calls \in ToolCallSeqs(ClassicNames(tools) \cap {"search_web", "list_images"}) :
                     /\ w' = [w EXCEPT ![j].pc = IF calls = << >> THEN "finalizing" ELSE "tools",
                                       ![j].pending = calls,
                                       ![j].output_text =
                                           IF calls = << >> THEN OrEmpty(content) ELSE << >>]
                     /\ UNCHANGED <<blobs, lastSet>>
         ELSE IF HasTools(tools)
         THEN \* run_responses_with_tools, then the names of response._classic_tools_used
              IF ~ok
              THEN /\ w' = Raise(j, w[j].created_at)
                   /\ UNCHANGED <<blobs, lastSet>>
              ELSE \E used \in ToolCallSeqs({"hello_mcp"}) :
                     /\ w' = [w EXCEPT ![j].pc = "finalizing",
                                       ![j].output_text = content,
                                       ![j].tools_used = Dedupe(<< >>, used)]
                     /\ UNCHANGED <<blobs, lastSet>>
         ELSE \* simple chat completion without tools
              IF ~ok
              THEN /\ w' = [w EXCEPT ![j].pc = "final",
                                     ![j].output_text = <<ErrorMarker>> \o ExcMsg]
                   /\ UNCHANGED <<blobs, lastSet>>
              ELSE /\ w' = [w EXCEPT ![j].pc = "final", ![j].output_text = OrEmpty(content)]
                   /\ Write(j, WithCreated(Call("running", 90, <<"Finalizing response...">>),
                                           w[j].created_at), {"createdAt"})
    /\ UNCHANGED <<clock, queue, lp>>

ToolMessage(name) ==
    IF name = "search_web" THEN <<"Web search in progress...">> ELSE <<"Using tool:", name>>

McpExecTool(j) ==
    /\ w[j].pc = "tools"
    /\ queue[j].queue = CopilotQueue
    /\ LET name == Head(w[j].pending) IN
         /\ Write(j, [Call("running", 50, ToolMessage(name)) EXCEPT
                         !.tool = <<name>>, !.created_at = w[j].created_at],
                  {"tool", "createdAt"})
         /\ w' = [w EXCEPT ![j].pending = Tail(@),
                           ![j].tools_used = Append(@, name),
                           ![j].pc = IF Tail(w[j].pending) = << >> THEN "followup" ELSE "tools"]
    /\ UNCHANGED <<clock, queue, lp>>

McpFollowUp(j) ==
    /\ w[j].pc = "followup"
    /\ queue[j].queue = CopilotQueue
    /\ \E ok \in BOOLEAN, content \in Contents :
         w' = IF ok THEN [w EXCEPT ![j].pc = "finalizing", ![j].output_text = OrEmpty(content)]
              ELSE Raise(j, w[j].created_at)
    /\ UNCHANGED <<clock, blobs, queue, lastSet, lp>>

McpFinalizing(j) ==
    /\ w[j].pc = "finalizing"
    /\ queue[j].queue = CopilotQueue
    /\ \E ok \in BOOLEAN, content \in Contents :
         w' = [w EXCEPT ![j].pc = "final",
                        ![j].output_text =
                            IF HasClassicTools(WorkerTools(j)) /\ ~Truthy(w[j].output_text) /\ ok
                            THEN OrEmpty(content) ELSE @]
    /\ Write(j, WithCreated(Call("running", 90, <<"Finalizing response...">>),
                            w[j].created_at), {"createdAt"})
    /\ UNCHANGED <<clock, queue, lp>>

FinalStatus(output_text) ==
    IF Truthy(output_text) /\ ~StartsWith(output_text, ErrorMarker)
    THEN "completed" ELSE "failed"

FinalCall(output_text, tools_used, created_at) ==
    LET final_status == FinalStatus(output_text)
        final_message == IF final_status = "completed" THEN <<"Completed">>
                         ELSE <<ErrorMarker>> \o Str(output_text)
    IN  [Call(final_status, 100, final_message) EXCEPT
            !.tool = IF tools_used # << >> THEN Join(tools_used) ELSE << >>,
            !.final_text = OrEmpty(output_text),
            !.used_tools = tools_used,
            !.created_at = created_at]

McpFinal(j) ==
    /\ w[j].pc = "final"
    /\ queue[j].queue = CopilotQueue
    /\ Write(j, FinalCall(w[j].output_text, w[j].tools_used, w[j].created_at),
             {"tool", "final_text", "used_tools", "createdAt"})
    /\ \E deleted \in BOOLEAN : queue' = Finish(j, deleted)
    /\ w' = [w EXCEPT ![j] = Ended(j, "returned", blobs'[j])]
    /\ UNCHANGED <<clock, lp>>

HandlerCall(exc) == Call("failed", 100, <<ErrorMarker>> \o exc)

\* except Exception as e: mark the job, then re-raise
McpHandler(j) ==
    /\ w[j].pc = "handler"
    /\ queue[j].queue = CopilotQueue
    /\ Write(j, HandlerCall(w[j].exc), {})
    /\ queue' = Finish(j, FALSE)
    /\ w' = [w EXCEPT ![j] = Ended(j, "raised", blobs'[j])]
    /\ UNCHANGED <<clock, lp>>

\* ---- queue_trigger (queue "mcpjobs"): every write is upload_blob of a fresh dict
QueueTools(j) == QueueFilterTools(BuildTools(ResolveMcpConfig(queue[j].body)), queue[j].body)

Min(a, b) == IF a < b THEN a ELSE b

WithCreatedAt(d, ca) == IF ca # NoTime THEN d @@ ("createdAt" :> ca) ELSE d

Put(j, payload) ==
    /\ blobs' = Upload(j, payload)
    /\ lastSet' = DOMAIN payload

RunningPayload(ca, now) ==
    WithCreatedAt([status |-> "running", progress |-> 1,
                   message |-> <<"Reflexion en cours">>, tool |-> << >>,
                   partial_text |-> << >>, final_text |-> << >>, updatedAt |-> now], ca)
      @@ ("startedAt" :> now)

QtStart(j) ==
    /\ Delivered(j, PlainQueue)
    /\ queue' = Dequeue(j)
    /\ LET ca == ReadCreatedAt(j) IN
         /\ Put(j, RunningPayload(ca, clock))
         /\ \E clientOk \in BOOLEAN :
              w' = IF ~clientOk \/ ResolveMcpConfig(queue[j].body) = "raise"
                   THEN [Raise(j, ca) EXCEPT ![j].startedAt = clock]
                   ELSE [w EXCEPT ![j].pc = "qt_run", ![j].created_at = ca,
                                  ![j].startedAt = clock, ![j].progress_value = 1]
    /\ UNCHANGED <<clock, lp>>

\* client.responses.create(**args) guarded by try/except: the text, or f"error: {e}"
CreateOrError(ok, content) == IF ok THEN content ELSE <<"error:">> \o ExcMsg

\* the tools branch: the tool loop, the retry without tools, the non-stream fallback
QtRunTools(j) ==
    /\ w[j].pc = "qt_run"
    /\ queue[j].queue = PlainQueue
    /\ HasTools(QueueTools(j))
    /\ \E loopOk \in BOOLEAN, ok2 \in BOOLEAN, text \in Contents, text2 \in Contents :
         w' = [w EXCEPT ![j].pc = "qt_result",
                        ![j].output_text =
                            IF ~loopOk THEN CreateOrError(ok2, text2)
                            ELSE IF ~Truthy(text) /\ ok2 THEN text2
                            ELSE text]
    /\ UNCHANGED <<clock, blobs, queue, lastSet, lp>>

Deltas == {"d"}

RunningUpdate(progress, chunks, ca, started, now) ==
    WithCreatedAt([status |-> "running", progress |-> progress,
                   message |-> <<"Generation en cours">>, tool |-> << >>,
                   partial_text |-> chunks, final_text |-> << >>], ca)
      @@ ("updatedAt" :> now) @@ ("duration_ms" :> (now - started) * 1000)

\* one response.output_text.delta event of the stream
QtDelta(j) ==
    /\ w[j].pc = "qt_run"
    /\ queue[j].queue = PlainQueue
    /\ ~HasTools(QueueTools(j))
    /\ Len(w[j].chunks) < MaxDeltas
    /\ \E delta \in Deltas :
         LET chunks == Append(w[j].chunks, delta)
             progress == Min(95, w[j].progress_value + 2)
         IN  /\ w' = [w EXCEPT ![j].chunks = chunks, ![j].progress_value = progress]
             /\ Put(j, RunningUpdate(progress, chunks, w[j].created_at, w[j].startedAt, clock))
    /\ UNCHANGED <<clock, queue, lp>>

\* the stream ends (get_final_response), or it raises and the non-stream create runs
QtStreamEnd(j) ==
    /\ w[j].pc = "qt_run"
    /\ queue[j].queue = PlainQueue
    /\ ~HasTools(QueueTools(j))
    /\ \E streamOk \in BOOLEAN, ok2 \in BOOLEAN, text \in Contents :
         w' = [w EXCEPT ![j].pc = "qt_result",
                        ![j].output_text =
                            IF ~streamOk THEN CreateOrError(ok2, text)
                            ELSE IF Truthy(text) THEN text ELSE w[j].chunks]
    /\ UNCHANGED <<clock, blobs, queue, lastSet, lp>>

ResultPayload(output_text, ca, started, now) ==
    WithCreatedAt([status |-> "completed", progress |-> 100, message |-> <<"Termine">>,
                   tool |-> << >>, partial_text |-> << >>,
                   final_text |-> OrEmpty(output_text), model |-> EnvModel]
                    @@ ("duration_ms" :> (now - started) * 1000), ca)
      @@ ("updatedAt" :> now)

QtResult(j) ==
    /\ w[j].pc = "qt_result"
    /\ queue[j].queue = PlainQueue
    /\ Put(j, ResultPayload(w[j].output_text, w[j].created_at, w[j].startedAt, clock))
    /\ \E deleted \in BOOLEAN : queue' = Finish(j, deleted)
    /\ w' = [w EXCEPT ![j] = Ended(j, "returned", blobs'[j])]
    /\ UNCHANGED <<clock, lp>>

ErrorPayload(exc) == [status |-> "error", error |-> exc]

\* except Exception as e: write the error record; the exception is not re-raised
QtHandler(j) ==
    /\ w[j].pc = "handler"
    /\ queue[j].queue = PlainQueue
    /\ Put(j, ErrorPayload(w[j].exc))
    /\ \E deleted \in BOOLEAN : queue' = Finish(j, deleted)
    /\ w' = [w EXCEPT ![j] = Ended(j, "returned", blobs'[j])]
    /\ UNCHANGED <<clock, lp>>

\* the worker process dies in the middle of an invocation; the message reappears
Crash(j) ==
    /\ w[j].pc # "idle"
    /\ queue' = Finish(j, FALSE)
    /\ w' = [w EXCEPT ![j] = Died(j)]
    /\ UNCHANGED <<clock, blobs, lastSet, lp>>

LoopIdle == [pc |-> "idle"]

Init == JobInit /\ lp = LoopIdle

Next ==
    \/ Tick
    \/ \E j \in JobIds :
         \/ AcceptJob(j)
         \/ McpStart(j) \/ McpBranch(j) \/ McpGenerate(j) \/ McpExecTool(j)
         \/ McpFollowUp(j) \/ McpFinalizing(j) \/ McpFinal(j) \/ McpHandler(j)
         \/ QtStart(j) \/ QtRunTools(j) \/ QtDelta(j) \/ QtStreamEnd(j)
         \/ QtResult(j) \/ QtHandler(j)
         \/ Crash(j)

Spec == Init /\ [][Next]_vars

TypeOK ==
    /\ clock \in 1..MaxClock
    /\ DOMAIN blobs \subseteq JobIds
    /\ \A j \in JobIds : w[j].pc \in {"idle", "handler", "branch", "chat", "tools", "followup",
                                      "finalizing", "final", "qt_run", "qt_result"}

\* ------------------------------------------------ run_responses_with_tools
max_loops == 6

MaxCalls == 2   \* tool calls in one requires_action response
MaxUsed  == 2   \* tool calls recorded in used_tools by the rounds of one run

ToolA == "search_web"
ToolB == "convert_word_to_pdf"
McpMethod == "one"

ToolFailed == <<"Tool execution failed.">>

\* the tools whose execution may raise
FailingTools == {ToolB}

\* a parse that would pass malformed arguments on as they are
ParseArgsKeeping(raw) == raw

\* the raw arguments of a call, and json.loads of them guarded by try/except
RawArgs == {"{}"}
ParseArgs(raw) == IF raw = "{bad" THEN "{}" ELSE raw

\* what a tool call of a response can be (its id is added when the response is read)
CallKinds ==
    {[type |-> "function", name |-> n, arguments |-> a] : n \in {ToolA, ToolB}, a \in RawArgs}
      \cup {[type |-> "mcp", name |-> McpMethod, arguments |-> "{}"]}

CallSeqs(n) == UNION {[1..k -> CallKinds] : k \in 0..n}

WithIds(rid, kinds) ==
    [k \in 1..Len(kinds) |-> [id |-> <<rid, k>>, type |-> kinds[k].type,
                              name |-> kinds[k].name, arguments |-> kinds[k].arguments]]

Statuses == {"in_progress", "requires_action", "completed"}

\* a response of the generation service, as create / submit_tool_outputs / wait return it
Responses(rid) ==
    {[id |-> rid, status |-> st, output_text |-> t] :
        st \in Statuses, t \in {NoneText, Answer}}
      \ {[id |-> rid, status |-> "in_progress", output_text |-> Answer]}

\* the outcome of a call of the generation service that raises
CreateRaises == [id |-> 0, status |-> "<raise>", output_text |-> NoneText]
SubmitRaises == CreateRaises
WaitRaises == CreateRaises

\* what execute_tool_call returns for a call that does not raise
ToolResult(name) == <<name, "-result">>

\* a loop that would dispatch every call to execute_tool_call
CallOutputDispatching(call, raises) ==
    IF raises THEN [tool_call_id |-> call.id, output |-> ToolFailed]
    ELSE [tool_call_id |-> call.id, output |-> ToolResult(call.name)]

\* the output the loop collects for one call; `raises`: execute_tool_call raised
CallOutput(call, raises) ==
    IF call.type = "mcp" THEN [tool_call_id |-> call.id, output |-> << >>]
    ELSE IF raises THEN [tool_call_id |-> call.id, output |-> ToolFailed]
    ELSE [tool_call_id |-> call.id, output |-> ToolResult(call.name)]

\* the entry the loop appends to used_tools for one call; << >> when none
UsedEntry(call, raises) ==
    IF call.type = "mcp" THEN <<[name |-> call.name, type |-> "mcp"]>>
    ELSE IF raises THEN << >>
    ELSE <<[name |-> call.name, arguments |-> ParseArgs(call.arguments), type |-> "classic"]>>

\* the names execute_tool_call is invoked with for one call
ExecutedName(call) == IF call.type = "mcp" THEN << >> ELSE <<call.name>>

RECURSIVE Flatten(_)
Flatten(ss) == IF ss = << >> THEN << >> ELSE Head(ss) \o Flatten(Tail(ss))

ToolOutputsKept(previous, calls, raises) ==
    previous \o [k \in 1..Len(calls) |-> CallOutput(calls[k], k \in raises)]

\* a loop that would leave out the output of a call whose execution raised
ToolOutputsWithoutFailed(previous, calls, raises) ==
    Flatten([k \in 1..Len(calls) |->
               IF k \in raises THEN << >> ELSE <<CallOutput(calls[k], FALSE)>>])

\* the batch the loop builds for the calls of one response: tool_outputs is emptied at
\* the start of each iteration, whatever the previous batch was
ToolOutputs(previous, calls, raises) ==
    [k \in 1..Len(calls) |-> CallOutput(calls[k], k \in raises)]

NoRound == [answered |-> << >>, response_id |-> 0, batch |-> << >>, executed |-> << >>]


NoInputs == [has_search |-> FALSE, has_docsvc |-> FALSE, user_text |-> NoneStr,
             allow_post_synthesis |-> FALSE]

LoopStart ==
    [pc |-> "start", inputs |-> NoInputs, i |-> 0,
     response |-> [id |-> 0, status |-> "none", output_text |-> NoneText],
     executed_any_tool |-> FALSE, used_tools |-> << >>,
     fallback_text |-> NoneText, output_text |-> NoneText,
     \* history of the run
     submits |-> 0, polls |-> 0, creates |-> 0, direct |-> << >>, last |-> NoRound]

\* the last user text of the request: none, without a marker, with a realtime
\* marker, or asking for the shared templates
UserTexts == {NoneStr, "hello", "weather in Paris", "shared templates"}

\* the parts of responses_args and the flag that the steps after the loop read
LoopInputs ==
    [has_search : BOOLEAN, has_docsvc : BOOLEAN, user_text : UserTexts,
     allow_post_synthesis : BOOLEAN]

LoopInit ==
    /\ JobInit
    /\ lp = LoopStart

\* client.responses.create(**responses_args), then wait(id) guarded by try/except
LoopCreate ==
    /\ lp.pc = "start"
    /\ \E r \in Responses(1) \cup {CreateRaises} :
         lp' = IF r # CreateRaises THEN [lp EXCEPT !.pc = "loop", !.response = r, !.creates = 1]
               ELSE [lp EXCEPT !.pc = "raised", !.creates = 1]
    /\ UNCHANGED <<clock, blobs, queue, w, lastSet>>

NextIndexStuck(i) == i

\* for i in range(max_loops): the index of the next iteration
NextIndex(i) == i + 1

AfterIterationLate(i) == IF i > max_loops THEN "fallback" ELSE "loop"

\* the for loop ends when its range is used up
AfterIteration(i) == IF i >= max_loops THEN "fallback" ELSE "loop"

WaitFailedRaising(l) == [l EXCEPT !.pc = "raised"]

\* except Exception: break
WaitFailed(l) == [l EXCEPT !.pc = "fallback"]

\* a re-poll that would stay in the same iteration
AfterPollSameIteration(i) == i

\* continue: the for statement goes on with the next index
AfterPoll(i) == NextIndex(i)

\* status == "in_progress": wait on the response and continue, or break when wait raises
LoopPoll ==
    /\ lp.pc = "loop"
    /\ lp.response.status = "in_progress"
    /\ \E r \in Responses(lp.response.id) \cup {WaitRaises} :
         LET polled == [lp EXCEPT !.polls = @ + 1] IN
         lp' = IF r # WaitRaises THEN [polled EXCEPT !.response = r, !.i = AfterPoll(lp.i),
                                                    !.pc = AfterIteration(AfterPoll(lp.i))]
               ELSE WaitFailed(polled)
    /\ UNCHANGED <<clock, blobs, queue, w, lastSet>>

\* status is neither in_progress nor requires_action, or the response has no tool call
LoopBreak ==
    /\ lp.pc = "loop"
    /\ \/ lp.response.status \notin {"in_progress", "requires_action"}
       \/ lp.response.status = "requires_action"
    /\ lp' = [lp EXCEPT !.pc = "fallback"]
    /\ UNCHANGED <<clock, blobs, queue, w, lastSet>>

\* one round: handle every call of the response, submit the batch, wait
LoopToolRound ==
    /\ lp.pc = "loop"
    /\ lp.response.status = "requires_action"
    /\ \E kinds \in CallSeqs(MaxCalls) \ {<< >>} :
       \E raises \in SUBSET {k \in 1..Len(kinds) : kinds[k].name \in FailingTools} :
       \E r \in Responses(lp.response.id + 1) \cup {SubmitRaises} :
         LET calls == WithIds(lp.response.id, kinds)
             tool_outputs == ToolOutputs(lp.last.batch, calls, raises)
             entries == Flatten([k \in 1..Len(calls) |-> UsedEntry(calls[k], k \in raises)])
             round == [answered |-> calls, response_id |-> lp.response.id,
                       batch |-> tool_outputs,
                       executed |-> Flatten([k \in 1..Len(calls) |-> ExecutedName(calls[k])])]
             handled == [lp EXCEPT
                           !.executed_any_tool = @ \/ entries # << >>,
                           !.used_tools = @ \o entries,
                           !.submits = @ + 1,
                           !.last = round]
         IN  /\ Len(entries) <= MaxUsed - Len(lp.used_tools)
             /\ lp' = IF r # SubmitRaises
                      THEN [handled EXCEPT !.response = r, !.i = NextIndex(lp.i),
                                           !.pc = AfterIteration(NextIndex(lp.i))]
                      ELSE [handled EXCEPT !.pc = "raised"]
    /\ UNCHANGED <<clock, blobs, queue, w, lastSet>>

RealtimeMarker(user_text) == user_text = "weather in Paris"
SharedTemplatesMarker(user_text) == user_text = "shared templates"

\* what a direct execute_tool_call can give: an exception, a blank string, a result
DirectOutcomes(name) == {<<"<raise>">>, << >>, ToolResult(name)}

NonBlank(text) == text \notin {NoneText, << >>, <<"<raise>">>}

DirectEntryUnflagged(name, arguments) ==
    [name |-> name, arguments |-> arguments, type |-> "classic", direct |-> FALSE]

DirectEntry(name, arguments) ==
    [name |-> name, arguments |-> arguments, type |-> "classic", direct |-> TRUE]

Chunk(label, output) == <<"<" \o label \o ">">> \o output \o <<"</" \o label \o ">">>

HeuristicsAlways(allow_post_synthesis, executed_any_tool) == allow_post_synthesis

\* if allow_post_synthesis and (not executed_any_tool)
Heuristics(allow_post_synthesis, executed_any_tool) ==
    allow_post_synthesis /\ ~executed_any_tool

\* output_text is read from the response, then the heuristics run when allowed and
\* no tool was executed in the loop
LoopFallback ==
    /\ lp.pc = "fallback"
    /\ \E inputs \in LoopInputs :
       \E search \in DirectOutcomes(ToolA), listed \in DirectOutcomes("list_shared_templates") :
         LET heuristics == Heuristics(inputs.allow_post_synthesis, lp.executed_any_tool)
             do_search == /\ heuristics /\ inputs.has_search
                          /\ inputs.user_text # NoneStr /\ RealtimeMarker(inputs.user_text)
             do_list == /\ heuristics /\ inputs.has_docsvc
                        /\ inputs.user_text # NoneStr /\ SharedTemplatesMarker(inputs.user_text)
             got_search == do_search /\ NonBlank(search)
             got_list == do_list /\ NonBlank(listed)
             combined == Chunk("shared_templates", listed)
         IN  /\ (~do_search => search = << >>)
             /\ (~do_list => listed = << >>)
             /\ (~heuristics => inputs = [NoInputs EXCEPT !.allow_post_synthesis =
                                                          inputs.allow_post_synthesis])
             /\ lp' = [lp EXCEPT
                  !.pc = "synth",
                  !.inputs = inputs,
                  !.output_text = IF got_search THEN search ELSE lp.response.output_text,
                  !.fallback_text = IF got_search /\ got_list THEN search \o combined
                                    ELSE IF got_search THEN search
                                    ELSE IF got_list THEN combined
                                    ELSE NoneText,
                  !.used_tools = @ \o (IF got_search
                                       THEN <<DirectEntry(ToolA, inputs.user_text)>> ELSE << >>)
                                   \o (IF got_list
                                       THEN <<DirectEntry("list_shared_templates", "{}")>> ELSE << >>),
                  !.direct = (IF do_search THEN <<[name |-> ToolA, query |-> inputs.user_text]>>
                              ELSE << >>)
                             \o (IF do_list THEN <<[name |-> "list_shared_templates", query |-> "{}"]>>
                                 ELSE << >>)]
    /\ UNCHANGED <<clock, blobs, queue, w, lastSet>>

SynthTexts == {<<"<raise>">>, NoneText, <<"synthesis">>}

\* the post-synthesis pass, then the used tools are attached and the pair returned
LoopSynth ==
    /\ lp.pc = "synth"
    /\ \E first \in SynthTexts, second \in SynthTexts :
         LET pass == lp.inputs.allow_post_synthesis /\ NonBlank(lp.fallback_text)
             retry == pass /\ first = NoneText
             rid == lp.response.id + 1
         IN  /\ (~pass => first = NoneText)
             /\ (~retry => second = NoneText)
             /\ lp' = [lp EXCEPT
                  !.pc = "done",
                  !.creates = @ + (IF pass THEN 1 ELSE 0) + (IF retry THEN 1 ELSE 0),
                  !.output_text = IF pass /\ NonBlank(first) THEN first
                                  ELSE IF retry /\ NonBlank(second) THEN second
                                  ELSE @,
                  !.response = IF pass /\ NonBlank(first)
                                 THEN [id |-> rid, status |-> "completed", output_text |-> first]
                               ELSE IF retry /\ NonBlank(second)
                                 THEN [id |-> rid + 1, status |-> "completed", output_text |-> second]
                               ELSE @]
    /\ UNCHANGED <<clock, blobs, queue, w, lastSet>>

LoopNext ==
    \/ LoopCreate
    \/ LoopPoll
    \/ LoopBreak
    \/ LoopToolRound
    \/ LoopFallback
    \/ LoopSynth

LoopSpec == LoopInit /\ [][LoopNext]_vars

LoopTypeOK ==
    /\ lp.pc \in {"start", "loop", "fallback", "synth", "done", "raised"}
    /\ lp.i \in 0..max_loops
    /\ lp.submits \in 0..max_loops

\* =================================================== properties of the job record
\* C1: the status of a job record only moves queued -> running -> {completed,
\* failed, error}; once a record carries a terminal status no later write changes
\* its status, a second invocation for the same message included.
StatusOnlyMovesForward ==
    [][\A j \in DOMAIN blobs :
          LET s == blobs[j].status
              t == blobs'[j].status
          IN  \/ s = t
              \/ s = "queued" /\ t = "running"
              \/ s = "running" /\ t \in Terminal]_vars

\* C2: between two successive versions of a record that is not terminal the
\* progress never decreases, also when the worker crashed and the message is
\* delivered again.
ProgressNeverDecreases ==
    [][\A j \in DOMAIN blobs :
          (blobs[j].status \notin Terminal /\ blobs'[j].status \notin Terminal)
             => blobs'[j].progress >= blobs[j].progress]_vars

\* C3: the createdAt a record was created with is in every later version of the
\* record, with the same value, whichever worker writes.
CreatedAtKept ==
    [][\A j \in DOMAIN blobs :
          Has(blobs[j], "createdAt")
             => Has(blobs'[j], "createdAt") /\ blobs'[j]["createdAt"] = blobs[j]["createdAt"]]_vars

\* C4: every write of a record is a merge: a field of the previous version that the
\* writer does not set explicitly is in the new version with its previous value.
WritesAreMerges ==
    [][\A j \in DOMAIN blobs :
          \A f \in DOMAIN blobs[j] \ lastSet' :
             Has(blobs'[j], f) /\ blobs'[j][f] = blobs[j][f]]_vars

\* C9: when an exception escapes the processing of a job, the worker leaves the
\* record with status "error" and the exception message in the field error, and
\* re-raises, so that the message is delivered again.
FailureIsRecordedAndRaised ==
    [][\A j \in JobIds :
          (w[j].pc = "handler" /\ w'[j].pc = "idle" /\ w'[j].last # "crashed")
             => /\ blobs'[j].status = "error"
                /\ Get(blobs'[j], "error", NoneText) = w[j].exc
                /\ w'[j].last = "raised"
                /\ queue'[j].state = "visible"]_vars

\* C10: the final record a worker writes is completed exactly when the terminal text
\* is non-empty and does not start with the error marker, and failed otherwise;
\* it has progress 100, final_text equal to the text, used_tools equal to the list
\* of tools used and tool equal to the comma-joined names.
FinalRecordReflectsText ==
    [][\A j \in JobIds :
          (w[j].pc \in {"final", "qt_result"} /\ w'[j].pc = "idle" /\ w'[j].last = "returned")
             => LET r == blobs'[j]
                    text == w[j].output_text
                IN  /\ r.status = FinalStatus(text)
                    /\ r.progress = 100
                    /\ r.final_text = OrEmpty(text)
                    /\ Get(r, "used_tools", NoneList) = w[j].tools_used
                    /\ r.tool = Join(w[j].tools_used)]_vars

Names(calls) == [k \in 1..Len(calls) |-> calls[k].name]
IsFunctionRound(round) ==
    /\ Len(round.answered) = 1
    /\ round.answered[1].type = "function"

\* C6: when one round answers a response that requested tool A and the next round
\* answers a response that requested tool B, A was executed in the first round and
\* B in the second, and the second submission holds exactly one output, which
\* carries the id of B's call (so none for A's call).
SecondSubmissionOnlyB ==
    [][(/\ lp.pc = "loop" /\ lp'.submits = lp.submits + 1
        /\ IsFunctionRound(lp.last) /\ IsFunctionRound(lp'.last))
          => /\ lp.last.executed = Names(lp.last.answered)
             /\ lp'.last.executed = Names(lp'.last.answered)
             /\ Len(lp'.last.batch) = 1
             /\ lp'.last.batch[1].tool_call_id = lp'.last.answered[1].id
             /\ lp'.last.batch[1].tool_call_id # lp.last.answered[1].id]_vars

AThenB ==
    /\ lp.submits = 2
    /\ lp.used_tools = <<[name |-> ToolA, arguments |-> "{}", type |-> "classic"],
                         [name |-> ToolB, arguments |-> "{}", type |-> "classic"]>>
    /\ Names(lp.last.answered) = <<ToolB>>
    /\ lp.last.batch = <<[tool_call_id |-> <<2, 1>>, output |-> ToolResult(ToolB)]>>

\* steps the call can still take, at most
Rank(l) ==
    CASE l.pc = "start" -> max_loops + 4
      [] l.pc = "loop" -> 3 + (max_loops - l.i)
      [] l.pc = "fallback" -> 2
      [] l.pc = "synth" -> 1
      [] OTHER -> 0

Returned == lp.pc = "done"
Finished == lp.pc \in {"done", "raised"}

NeverRaises == lp.pc # "raised"

\* C11: the first write of a worker that received the message of a job sets status
\* running with progress 1, no request is sent to the generation service before
\* that write, and from that write on the record is never read as queued.
Receives(j) == queue[j].state = "visible" /\ queue'[j].state = "inflight"

ModelWork == {"chat", "tools", "followup", "finalizing", "final", "qt_run", "qt_result"}

FirstWriteIsRunningOne ==
    /\ [][\A j \in JobIds :
            (Receives(j) /\ blobs' # blobs) =>
                blobs'[j].status = "running" /\ blobs'[j].progress = 1]_vars
    /\ [](\A j \in JobIds :
            w[j].pc \in ModelWork => j \in DOMAIN blobs /\ blobs[j].status = "running")
    /\ [][\A j \in JobIds :
            (j \in DOMAIN blobs /\ blobs[j].status # "queued") =>
                blobs'[j].status # "queued"]_vars

\* C12: processing the message of a job a second time, with the generation service
\* and the tools giving what they gave the first time, leaves the record as the
\* first processing left it, timestamps aside.
Ends(j) == w[j].pc # "idle" /\ w'[j].pc = "idle" /\ w'[j].last # "crashed"

SecondRunSameRecord ==
    [][\A j \in JobIds :
         (Ends(j) /\ w[j].previous.ran /\ Outcome(j) = w[j].previous.outcome)
             => SansTime(blobs'[j]) = w[j].previous.record]_vars

RanTwiceWithTools ==
    \E j \in JobIds :
        /\ w[j].pc = "idle" /\ w[j].last = "returned"
        /\ queue[j].dequeued = 2
        /\ w[j].previous.again = "same"
        /\ blobs[j].status = "completed"
        /\ Get(blobs[j], "used_tools", << >>) # << >>

\* C13: a worker processing a job whose body carries allowed_tools = [] sends the
\* generation service no request with a classic (type function) tool, whatever the
\* job type and the stream flag.
RequestTools(j) ==
    IF queue[j].queue = CopilotQueue THEN WorkerTools(j) ELSE QueueTools(j)

Requesting(j) == w[j].pc \in {"chat", "qt_run"}

EmptyAllowListNoClassicTool ==
    \A j \in JobIds :
        (Requesting(j) /\ queue[j].body.allowed_tools = << >>)
            => ~HasClassicTools(RequestTools(j))

\* C14: allow-list filtering is exact.  With a non-empty allow-list that does not
\* hold "*", a tool of the catalog is in the request sent to the generation service
\* exactly when its name is in the allow-list; with "*" in the allow-list every
\* tool of the catalog is in the request.
Catalog(j) ==
    BuildTools(IF queue[j].queue = CopilotQueue THEN WorkerCfg(j)
               ELSE ResolveMcpConfig(queue[j].body))

AllowListFilteringExact ==
    \A j \in JobIds :
        Requesting(j) =>
            LET na == NormalizeAllowedTools(queue[j].body.allowed_tools)
                sent == SeqToSet(RequestTools(j))
                catalog == SeqToSet(Catalog(j))
            IN  /\ (na \notin {NoneList, << >>} /\ "*" \notin SeqToSet(na))
                      => \A t \in catalog : t \in sent <=> IsNamed(t, na)
                /\ (na # NoneList /\ "*" \in SeqToSet(na)) => catalog \subseteq sent

\* C15: search_web is among the tools of a request to the generation service only
\* if the allow-list of the job holds "search_web" or "*"; without an allow-list
\* it is absent.
SearchWebOnlyWhenAllowed ==
    \A j \in JobIds :
        (Requesting(j) /\ "search_web" \in ClassicNames(RequestTools(j)))
            => LET na == NormalizeAllowedTools(queue[j].body.allowed_tools)
               IN  na # NoneList /\ SeqToSet(na) \cap {"search_web", "*"} # {}

\* the direct search_web calls of the fallback heuristic, and the run the scenario of a
\* realtime question describes: post-synthesis allowed, the search tool in the catalog,
\* no tool call requested by the generation service, a realtime marker in the user text
SearchCalls == SelectSeq(lp.direct, LAMBDA d : d.name = ToolA)

RealtimeCase ==
    /\ Returned
    /\ lp.inputs.allow_post_synthesis
    /\ lp.inputs.has_search
    /\ lp.submits = 0
    /\ RealtimeMarker(lp.inputs.user_text)

SearchRecorded ==
    \E k \in 1..Len(lp.used_tools) :
        lp.used_tools[k] = [name |-> ToolA, arguments |-> lp.inputs.user_text,
                            type |-> "classic", direct |-> TRUE]

\* C16: in the realtime case the loop calls search_web exactly once, directly, with
\* the user text verbatim as query.  When that call gives a non-blank text the call
\* is recorded in used_tools as a direct call, one request at least follows for
\* the synthesis, and the returned text is not blank: it is the text of the
\* synthesis pass when that pass gives one, and the text of the tool otherwise.
\* When the call fails or gives a blank text, nothing is recorded for it.
RealtimeSearchFallback ==
    RealtimeCase =>
        /\ Len(SearchCalls) = 1
        /\ SearchCalls[1].query = lp.inputs.user_text
        /\ SearchRecorded <=> (NonBlank(lp.fallback_text) /\ Head(lp.fallback_text) = ToolA)
        /\ SearchRecorded =>
              /\ lp.creates >= 2
              /\ NonBlank(lp.output_text)
              /\ \/ lp.output_text = <<"synthesis">> /\ lp.response.output_text = <<"synthesis">>
                 \/ lp.output_text = ToolResult(ToolA)

RealtimeSynthesised ==
    /\ RealtimeCase
    /\ SearchRecorded
    /\ lp.output_text = <<"synthesis">>
    /\ lp.fallback_text = ToolResult(ToolA)

\* C16 as stated: in the realtime case the direct call is recorded and the returned
\* text is the non-empty text of the post-synthesis pass.
RealtimeAlwaysSynthesised ==
    RealtimeCase =>
        /\ Len(SearchCalls) = 1
        /\ SearchCalls[1].query = lp.inputs.user_text
        /\ SearchRecorded
        /\ lp.output_text = <<"synthesis">>

\* C17: a run whose fallback heuristic produced a non-empty fallback context sends
\* exactly one more request to the generation service after the loop, and a run
\* whose fallback context is empty sends none.  (creates counts the
\* client.responses.create calls of the run, the initial one included.)
OneSynthesisRequest ==
    Returned => lp.creates = (IF NonBlank(lp.fallback_text) THEN 2 ELSE 1)

\* C18: a run that made a fallback context returns the text of the synthesis pass
\* when that text is not empty, and the fallback context verbatim otherwise, whether
\* the context came from the search tool or from a document-service tool.
SynthesisElseFallbackText ==
    (Returned /\ NonBlank(lp.fallback_text))
        => lp.output_text \in {<<"synthesis">>, lp.fallback_text}

\* the calls the loop handled and recorded: entries of used_tools that are not direct
LoopEntries == SelectSeq(lp.used_tools, LAMBDA e : ~Has(e, "direct"))

McpCalls(calls) == SelectSeq(calls, LAMBDA c : c.type = "mcp")
McpEntries(used) == SelectSeq(used, LAMBDA e : e.type = "mcp")

\* C20: in every round, each pending call of type mcp gets an output with the id of
\* the call and the empty string, is recorded in used_tools, and is not passed to
\* execute_tool_call, which runs for the function calls of the round only.
McpCallsAcknowledged ==
    [][lp'.submits = lp.submits + 1 =>
         LET round == lp'.last IN
           /\ Len(round.batch) = Len(round.answered)
           /\ \A k \in 1..Len(round.answered) :
                round.answered[k].type = "mcp" =>
                    round.batch[k] = [tool_call_id |-> round.answered[k].id, output |-> << >>]
           /\ McpEntries(lp'.used_tools) =
                McpEntries(lp.used_tools)
                  \o [k \in 1..Len(McpCalls(round.answered)) |->
                        [name |-> McpCalls(round.answered)[k].name, type |-> "mcp"]]
           /\ round.executed =
                Names(SelectSeq(round.answered, LAMBDA c : c.type # "mcp"))]_vars

\* two successive mcp rounds: two submissions of one output each, no executor call
TwoMcpRounds ==
    /\ lp.submits = 2
    /\ lp.used_tools = <<[name |-> McpMethod, type |-> "mcp"], [name |-> McpMethod, type |-> "mcp"]>>
    /\ lp.last.response_id = 2
    /\ lp.last.batch = <<[tool_call_id |-> <<2, 1>>, output |-> << >>]>>
    /\ lp.last.executed = << >>

Polling == lp.pc = "loop" /\ lp.response.status = "in_progress"

\* C21: while the current response is in_progress the loop runs no tool and submits
\* nothing: its only step is a wait on that response.  When the wait returns, the
\* loop goes on with the response it got, and a requires_action response met inside
\* the loop gets its round.  When the wait fails the loop is left for the fallback
\* step and nothing is raised.
InProgressIsWaitedFor ==
    /\ [][Polling =>
            /\ lp'.submits = lp.submits
            /\ lp'.used_tools = lp.used_tools
            /\ lp'.last = lp.last
            /\ lp'.executed_any_tool = lp.executed_any_tool
            /\ lp'.pc \in {"loop", "fallback"}
            /\ lp'.response.id = lp.response.id
            /\ lp'.response # lp.response => lp'.i = lp.i + 1]_vars
    /\ [](lp.pc = "loop" /\ lp.response.status = "requires_action" => ENABLED LoopToolRound)
    /\ [](Returned /\ lp.fallback_text = NoneText => lp.output_text = lp.response.output_text)

\* as in test_in_progress_polling: two waits and one round, then the text is returned
PolledTwiceAroundOneRound ==
    /\ Returned
    /\ lp.i = 3
    /\ lp.submits = 1
    /\ Names(lp.last.answered) = <<ToolA>>
    /\ lp.last.executed = <<ToolA>>
    /\ lp.response.id = 2
    /\ lp.output_text = Answer

\* ------------------------------------- one round of the loop, on any pending calls
\* The body of one iteration (for call in calls: ...; submit_tool_outputs) applied to
\* the calls of one requires_action response, malformed arguments and an executor
\* that raises for any tool included.
MalformedArgs == "{bad"

RoundCallKinds ==
    {[type |-> "function", name |-> n, arguments |-> a] :
        n \in {ToolA, ToolB}, a \in {"{}", MalformedArgs}}
      \cup {[type |-> "mcp", name |-> McpMethod, arguments |-> "{}"]}

RoundCallSeqs == UNION {[1..k -> RoundCallKinds] : k \in 1..MaxCalls}

\* the (name, arguments) pair execute_tool_call is invoked with for one call
ExecutedCall(call) ==
    IF call.type = "mcp" THEN << >>
    ELSE <<[name |-> call.name, arguments |-> ParseArgs(call.arguments)]>>

RoundPending(calls, raises) ==
    [pc |-> "pending", calls |-> calls, raises |-> raises, tool_outputs |-> << >>,
     used_tools |-> << >>, invoked |-> << >>, submitted |-> NoneList]

RoundInit ==
    /\ JobInit
    /\ \E kinds \in RoundCallSeqs :
       \E raises \in SUBSET {k \in 1..Len(kinds) : kinds[k].type = "function"} :
         lp = RoundPending(WithIds(1, kinds), raises)

\* for call in calls: the outputs are collected, the tools recorded
RoundHandle ==
    /\ lp.pc = "pending"
    /\ lp' = [lp EXCEPT
          !.pc = "handled",
          !.tool_outputs = ToolOutputs(<< >>, lp.calls, lp.raises),
          !.used_tools = Flatten([k \in 1..Len(lp.calls) |->
                                     UsedEntry(lp.calls[k], k \in lp.raises)]),
          !.invoked = Flatten([k \in 1..Len(lp.calls) |-> ExecutedCall(lp.calls[k])])]
    /\ UNCHANGED <<clock, blobs, queue, w, lastSet>>

\* client.responses.submit_tool_outputs(response_id, tool_outputs): returns or raises
RoundSubmit ==
    /\ lp.pc = "handled"
    /\ \E ok \in BOOLEAN :
         lp' = [lp EXCEPT !.pc = IF ok THEN "submitted" ELSE "raised",
                          !.submitted = lp.tool_outputs]
    /\ UNCHANGED <<clock, blobs, queue, w, lastSet>>

RoundNext == RoundHandle \/ RoundSubmit

RoundSpec == RoundInit /\ [][RoundNext]_vars

\* C22: for every classic call of a round the Tool Executor is invoked, with an empty
\* object as arguments when the raw arguments are not valid JSON; the output of a
\* call whose execution raises is "Tool execution failed."; the calls after it are
\* still handled (one output per call, in order, with the id of the call); and the
\* batch is then submitted as collected.
MalformedAndFailingCallsHandled ==
    /\ [](lp.pc # "pending" =>
            /\ lp.invoked =
                 Flatten([k \in 1..Len(lp.calls) |->
                    IF lp.calls[k].type = "mcp" THEN << >>
                    ELSE <<[name |-> lp.calls[k].name,
                            arguments |-> IF lp.calls[k].arguments = MalformedArgs
                                          THEN "{}" ELSE lp.calls[k].arguments]>>])
            /\ Len(lp.tool_outputs) = Len(lp.calls)
            /\ \A k \in 1..Len(lp.calls) :
                 /\ lp.tool_outputs[k].tool_call_id = lp.calls[k].id
                 /\ k \in lp.raises => lp.tool_outputs[k].output = ToolFailed
                 /\ (lp.calls[k].type = "function" /\ k \notin lp.raises)
                       => lp.tool_outputs[k].output = ToolResult(lp.calls[k].name))
    /\ [](lp.pc = "handled" => ENABLED RoundSubmit)
    /\ [](lp.pc \in {"submitted", "raised"} => lp.submitted = lp.tool_outputs)

FailedThenMalformedSubmitted ==
    /\ lp.pc = "submitted"
    /\ Len(lp.calls) = 2
    /\ lp.calls[1].name = ToolB /\ 1 \in lp.raises
    /\ lp.calls[2].name = ToolA /\ lp.calls[2].arguments = MalformedArgs /\ 2 \notin lp.raises
    /\ lp.submitted = <<[tool_call_id |-> <<1, 1>>, output |-> ToolFailed],
                        [tool_call_id |-> <<1, 2>>, output |-> ToolResult(ToolA)]>>
    /\ lp.invoked = <<[name |-> ToolB, arguments |-> "{}"], [name |-> ToolA, arguments |-> "{}"]>>

\* the round limit the environment asks for (MAX_TOOL_LOOPS=5, as in test_long_tool_chain)
MAX_TOOL_LOOPS == 5

\* C23: the round limit of the loop follows the MAX_TOOL_LOOPS setting: with a limit
\* of 5 a run handles at most 5 rounds.
RoundsFollowSetting == lp.submits <= MAX_TOOL_LOOPS

-----------------------------------------------------------------------------
\* The Tool Executor: execute_tool_call on any name, arguments and context.

\* a Python value given as arguments or as context
NoneValue == [kind |-> "none"]
Object(fields) == [kind |-> "object", fields |-> fields]
ListValue(items) == [kind |-> "list", items |-> items]

\* bool(value): None, an empty object and an empty list are falsy
IsTruthy(value) ==
    CASE value.kind = "none" -> FALSE
      [] value.kind = "object" -> DOMAIN value.fields # {}
      [] value.kind = "list" -> value.items # << >>

\* a text is a sequence of pieces; a piece of the form {name} is a replacement
\* field for str.format
FieldOf == [p \in {"{userId}", "{b}"} |-> IF p = "{userId}" THEN "userId" ELSE "b"]
PlainBlob == <<"docs/a.docx">>
BraceBlob == <<"docs/a", "{b}", ".docx">>

ExecNames ==
    {"search_web", "websearch", "convert_word_to_pdf", " Init_User ", "init_user",
     "list_images", "list_shared_templates", "list_templates_http", "delete_all"}

ExecArguments ==
    {NoneValue, Object(<< >>), ListValue(<< >>), ListValue(<<"x">>),
     Object([blob |-> PlainBlob]), Object([blob |-> BraceBlob]),
     Object([user_id |-> <<"u9">>]), Object([query |-> <<"news">>])}

ExecContexts == {NoneValue, Object(<< >>), Object([user_id |-> <<"u123">>])}

\* what the backend does with one request
BackendOutcomes == {"ok", "http_error", "unreachable"}

\* (name or "").strip().lower()
ToolKey(name) == IF name = " Init_User " THEN "init_user" ELSE name

\* arguments or {}
ArgsOrEmpty(value) == IF IsTruthy(value) THEN value ELSE Object(<< >>)

Raised(error) == [raised |-> TRUE, error |-> error, result |-> <<"<None>">>, requests |-> << >>]
Returns(text, requests) == [raised |-> FALSE, error |-> "", result |-> text, requests |-> requests]

\* str(args.get(key) or "").strip(), for an object
GetText(args, key) == IF key \in DOMAIN args.fields THEN args.fields[key] ELSE << >>

\* path_template.format(**params): a replacement field without a parameter raises
FormatRaises(template, params) ==
    \E k \in 1..Len(template) :
        template[k] \in DOMAIN FieldOf /\ FieldOf[template[k]] \notin DOMAIN params

RECURSIVE Format(_, _)
Format(template, params) ==
    IF template = << >> THEN << >>
    ELSE (IF Head(template) \in DOMAIN FieldOf
          THEN params[FieldOf[Head(template)]] ELSE <<Head(template)>>)
           \o Format(Tail(template), params)

\* _docsvc_build_url: "" without a base URL; the template is formatted otherwise
DocsvcBuildUrl(base, template, params) ==
    IF ~base THEN Returns(<< >>, << >>)
    ELSE IF FormatRaises(template, params) THEN Raised("KeyError")
    ELSE Returns(Format(template, params), << >>)

\* _docsvc_request: the URL is built before the try block, every failure of the
\* request itself is turned into a string
DocsvcRequest(method, template, params, base, outcome) ==
    LET url == DocsvcBuildUrl(base, template, params) IN
    IF url.raised THEN url
    ELSE IF url.result = << >> THEN Returns(<<"Document service backend not configured.">>, << >>)
    ELSE LET request == <<[method |-> method, url |-> url.result]>> IN
         CASE outcome = "ok" -> Returns(<<"docsvc body">>, request)
           [] outcome = "http_error" -> Returns(<<"docsvc error 500">>, request)
           [] outcome = "unreachable" -> Returns(<<"docsvc call failed">>, request)

\* _docsvc_convert_word_to_pdf: the blob becomes part of the path template
DocsvcConvertWordToPdf(args, base, outcome) ==
    IF args.kind # "object" THEN Raised("AttributeError")
    ELSE LET blob == GetText(args, "blob") IN
         IF blob = << >> THEN Returns(<<"Missing required parameter: blob">>, << >>)
         ELSE DocsvcRequest("POST", <<"/convert/word-to-pdf?blob=">> \o blob,
                            << >>, base, outcome)

\* the user id of _docsvc_init_user, _docsvc_list_images, _docsvc_list_templates_http
UserId(args, context) ==
    IF GetText(args, "user_id") = << >> /\ IsTruthy(context)
    THEN GetText(context, "user_id") ELSE GetText(args, "user_id")

DocsvcUserTool(method, template, args, context, base, outcome) ==
    IF args.kind # "object" \/ (GetText(args, "user_id") = << >> /\ IsTruthy(context)
                                  /\ context.kind # "object")
    THEN Raised("AttributeError")
    ELSE LET user_id == UserId(args, context) IN
         IF user_id = << >> THEN Returns(<<"Missing required parameter: user_id">>, << >>)
         ELSE DocsvcRequest(method, template, [userId |-> user_id], base, outcome)

\* _docsvc_list_shared_templates
DocsvcListSharedTemplates(base, outcome) ==
    DocsvcRequest("GET", <<"/templates">>, << >>, base, outcome)

\* _call_websearch_backend: arguments that are no object give an empty payload
CallWebsearchBackend(args, url, outcome) ==
    IF ~url THEN Returns(<<"Websearch backend not configured.">>, << >>)
    ELSE LET request == <<[method |-> "POST", url |-> <<"websearch">>]>> IN
         CASE outcome = "ok" -> Returns(<<"search result">>, request)
           [] outcome = "http_error" -> Returns(<<"websearch error 500">>, request)
           [] outcome = "unreachable" -> Returns(<<"Cannot connect to websearch service.">>, request)

ExecuteToolCall(name, arguments, context, env) ==
    LET tool == ToolKey(name)
        args == ArgsOrEmpty(arguments) IN
    CASE tool \in {"search_web", "websearch"} ->
            CallWebsearchBackend(args, env.websearch, env.outcome)
      [] tool = "convert_word_to_pdf" ->
            DocsvcConvertWordToPdf(args, env.docsvc, env.outcome)
      [] tool = "init_user" ->
            DocsvcUserTool("POST", <<"/users/", "{userId}", "/init">>, args, context,
                           env.docsvc, env.outcome)
      [] tool = "list_images" ->
            DocsvcUserTool("GET", <<"/users/", "{userId}", "/images">>, args, context,
                           env.docsvc, env.outcome)
      [] tool = "list_shared_templates" ->
            DocsvcListSharedTemplates(env.docsvc, env.outcome)
      [] tool = "list_templates_http" ->
            DocsvcUserTool("GET", <<"/users/", "{userId}", "/templates">>, args, context,
                           env.docsvc, env.outcome)
      [] OTHER -> Returns(<<"Unknown tool: ", name>>, << >>)

ExecEnvs == [websearch : BOOLEAN, docsvc : BOOLEAN, outcome : BackendOutcomes]

ExecInit ==
    /\ JobInit
    /\ \E name \in ExecNames, arguments \in ExecArguments, context \in ExecContexts,
          env \in ExecEnvs :
         lp = [pc |-> "call", name |-> name, arguments |-> arguments,
               context |-> context, env |-> env]

\* one invocation of execute_tool_call
Execute ==
    /\ lp.pc = "call"
    /\ LET out == ExecuteToolCall(lp.name, lp.arguments, lp.context, lp.env) IN
         lp' = [pc |-> IF out.raised THEN "raised" ELSE "returned",
                name |-> lp.name, arguments |-> lp.arguments, context |-> lp.context,
                env |-> lp.env, error |-> out.error, result |-> out.result,
                requests |-> out.requests]
    /\ UNCHANGED <<clock, blobs, queue, w, lastSet>>

ExecNext == Execute

ExecSpec == ExecInit /\ [][ExecNext]_vars

\* C24: execute_tool_call never raises, whatever the name and the arguments (a blob
\* path with braces and arguments that are no object included): every invocation
\* returns a string, and an unregistered name gives the unknown-tool string without
\* any request to a backend.
ExecuteToolCallNeverRaises ==
    /\ lp.pc # "raised"
    /\ (lp.pc = "returned" /\ ToolKey(lp.name) = "delete_all")
          => lp.result = <<"Unknown tool: ", lp.name>> /\ lp.requests = << >>

\* the part of C24 that holds: every invocation that returns gives a string, and an
\* unregistered name gives the unknown-tool string and no backend request
UnknownToolContactsNoBackend ==
    /\ lp.pc = "returned" => lp.result \in Seq(STRING) /\ lp.result # << >>
    /\ (lp.pc \in {"returned", "raised"} /\ ToolKey(lp.name) = "delete_all")
          => lp.pc = "returned" /\ lp.result = <<"Unknown tool: ", lp.name>>
                /\ lp.requests = << >>

BraceBlobRaises ==
    /\ lp.pc = "raised"
    /\ lp.name = "convert_word_to_pdf"
    /\ lp.arguments = Object([blob |-> BraceBlob])
    /\ lp.env.docsvc

\* the part of C25 about the executor: a user-scoped tool whose arguments carry no
\* user_id sends its request for the user_id of the context
UserScopedTools == {"init_user", "list_images", "list_templates_http"}

UserScopedToolsUseContext ==
    (/\ lp.pc = "returned"
     /\ ToolKey(lp.name) \in UserScopedTools
     /\ GetText(ArgsOrEmpty(lp.arguments), "user_id") = << >>
     /\ lp.context = Object([user_id |-> <<"u123">>])
     /\ lp.env.docsvc)
      => Len(lp.requests) = 1 /\ lp.requests[1].url[2] = "u123"

-----------------------------------------------------------------------------
\* The tool context on its way from a caller of run_responses_with_tools to the
\* Tool Executor.

Callers == {"mcp_process_worker", "queue_trigger", "orchestrate", "ask"}
UserIds == {<< >>, <<"u123">>}

\* tool_context = {"user_id": user_id} if user_id else None
CallerContext(user_id) ==
    IF user_id = << >> THEN NoneValue ELSE Object([user_id |-> user_id])

\* responses_args["x_user_id"] = user_id, set by orchestrate only
InternalUserId(caller, user_id) == IF caller = "orchestrate" THEN user_id ELSE << >>

\* the binding of the call's arguments to (allow_post_synthesis, tool_context):
\* mcp_process_worker passes the context as third positional argument, the other
\* callers by keyword. allow_post_synthesis is kept as its truth value.
BindArguments(caller, context) ==
    IF caller = "mcp_process_worker"
    THEN [allow_post_synthesis |-> IsTruthy(context), tool_context |-> NoneValue]
    ELSE [allow_post_synthesis |-> TRUE, tool_context |-> context]

\* the context after x_user_id was taken out of responses_args
WithInternalUserId(tool_context, internal_user_id) ==
    IF internal_user_id = << >> THEN tool_context
    ELSE IF tool_context.kind = "none" THEN Object([user_id |-> internal_user_id])
    ELSE IF "user_id" \notin DOMAIN tool_context.fields
         THEN Object([user_id |-> internal_user_id])
    ELSE tool_context

\* the executor invocations of the fallback heuristic: (name, arguments)
FallbackInvocations(internal_user_id) ==
    {[name |-> "search_web", arguments |-> Object([query |-> <<"news">>])],
     [name |-> "list_shared_templates", arguments |-> Object(<< >>)],
     [name |-> "convert_word_to_pdf", arguments |-> Object([blob |-> PlainBlob])]}
      \cup (IF internal_user_id = << >> THEN {}
            ELSE {[name |-> n, arguments |-> Object([user_id |-> internal_user_id])] :
                     n \in UserScopedTools})

\* the executor invocations of the loop: any classic call the response asks for
LoopInvocations ==
    {[name |-> n, arguments |-> a] :
        n \in UserScopedTools \cup {"search_web"},
        a \in {Object(<< >>), Object([user_id |-> <<"u9">>])}}

ContextInit ==
    /\ JobInit
    /\ \E caller \in Callers, user_id \in UserIds :
         lp = [pc |-> "caller", caller |-> caller, user_id |-> user_id]

\* the caller builds the context and calls run_responses_with_tools
ContextCall ==
    /\ lp.pc = "caller"
    /\ LET bound == BindArguments(lp.caller, CallerContext(lp.user_id))
           internal_user_id == InternalUserId(lp.caller, lp.user_id) IN
         lp' = [pc |-> "running", caller |-> lp.caller, user_id |-> lp.user_id,
                allow_post_synthesis |-> bound.allow_post_synthesis,
                internal_user_id |-> internal_user_id,
                tool_context |-> WithInternalUserId(bound.tool_context, internal_user_id)]
    /\ UNCHANGED <<clock, blobs, queue, w, lastSet>>

ContextInvoked(site, call, env) ==
    LET out == ExecuteToolCall(call.name, call.arguments, lp.tool_context, env) IN
    [pc |-> "invoked", caller |-> lp.caller, user_id |-> lp.user_id, site |-> site,
     name |-> call.name, arguments |-> call.arguments, context |-> lp.tool_context,
     env |-> env, raised |-> out.raised, result |-> out.result,
     requests |-> out.requests]

\* output = execute_tool_call(name, args, tool_context) in the loop
ContextLoopInvoke ==
    /\ lp.pc = "running"
    /\ \E call \in LoopInvocations, env \in ExecEnvs :
         lp' = ContextInvoked("loop", call, env)
    /\ UNCHANGED <<clock, blobs, queue, w, lastSet>>

\* direct = execute_tool_call(name, args, tool_context) in the fallback heuristic
ContextFallbackInvoke ==
    /\ lp.pc = "running"
    /\ lp.allow_post_synthesis
    /\ \E call \in FallbackInvocations(lp.internal_user_id), env \in ExecEnvs :
         lp' = ContextInvoked("fallback", call, env)
    /\ UNCHANGED <<clock, blobs, queue, w, lastSet>>

ContextNext == ContextCall \/ ContextLoopInvoke \/ ContextFallbackInvoke

ContextSpec == ContextInit /\ [][ContextNext]_vars

\* C25: every invocation of the Tool Executor made for a job of a user gets
\* {user_id: that user} as its context, in the loop and in the fallback heuristic,
\* whoever called the loop; and a user-scoped tool whose arguments carry no user_id
\* sends its request for the user_id of the context.
ToolContextReachesExecutor ==
    /\ (lp.pc = "invoked" /\ lp.user_id # << >>)
          => lp.context = Object([user_id |-> lp.user_id])
    /\ (/\ lp.pc = "invoked" /\ lp.user_id # << >>
        /\ lp.name \in UserScopedTools
        /\ GetText(lp.arguments, "user_id") = << >>
        /\ lp.env.docsvc)
          => Len(lp.requests) = 1 /\ lp.requests[1].url[2] = lp.user_id[1]

\* what holds of C25: the callers that pass the context by keyword
KeywordCallersPassContext ==
    (lp.pc = "invoked" /\ lp.user_id # << >> /\ lp.caller # "mcp_process_worker")
       => lp.context = Object([user_id |-> lp.user_id])

WorkerInvokesWithoutContext ==
    /\ lp.pc = "invoked"
    /\ lp.caller = "mcp_process_worker"
    /\ lp.user_id = <<"u123">>
    /\ lp.name = "list_images" /\ lp.arguments = Object(<< >>)
    /\ lp.context = NoneValue
    /\ lp.result = <<"Missing required parameter: user_id">>

-----------------------------------------------------------------------------
\* The status endpoints orchestrate_status and ask_status.

\* get_storage_clients() takes no parameter: a call with arguments raises TypeError
GetStorageClients(args) ==
    IF args # << >> THEN [raised |-> TRUE, error |-> "TypeError", queue |-> ""]
    ELSE [raised |-> FALSE, error |-> "", queue |-> PlainQueue]

StoredStatuses == {"queued", "running", "Running", "done", "completed", "error", "failed", ""}

\* the job records a status request can meet
StatusContents ==
    {[status |-> st, tool |-> t, progress |-> 10] @@ e @@ m :
        st \in StoredStatuses, t \in {"", "websearch"},
        e \in {EmptyDict, [error |-> "boom"]},
        m \in {EmptyDict, [message |-> "working"]}}

\* str(content.get("status", "")).lower()
LowerStatus(status) == IF status = "Running" THEN "running" ELSE status

\* the mapping of the stored status: mapped status, message, Retry-After
StatusMapping(content) ==
    LET status == LowerStatus(content.status)
        first ==
          CASE status = "queued" ->
                 [status |-> "queued", message |-> Get(content, "message", "default"),
                  retry_after |-> 3]
            [] status = "running" ->
                 [status |-> "running", message |-> Get(content, "message", "default"),
                  retry_after |-> 2]
            [] status \in {"done", "completed"} ->
                 [status |-> "completed", message |-> "Completed", retry_after |-> 0]
            [] status = "error" ->
                 [status |-> "failed",
                  message |-> "Error: " \o Get(content, "error", "Unknown error"),
                  retry_after |-> 0]
            [] OTHER ->
                 [status |-> "unknown", message |-> Get(content, "message", "Status unknown"),
                  retry_after |-> 5]
    IN IF content.tool # "" /\ first.status = "running"
       THEN [first EXCEPT !.status = "tool"]
       ELSE first

\* the response to a status request on a record that exists
StatusResponse(content, storage) ==
    IF storage.raised
    THEN [code |-> 500, ok |-> FALSE, error |-> storage.error]
    ELSE LET mapped == StatusMapping(content) IN
         [code |-> 200, ok |-> TRUE, status |-> mapped.status,
          message |-> mapped.message, progress |-> content.progress,
          tool |-> content.tool]
           @@ (IF mapped.retry_after # 0
               THEN [retry_after |-> mapped.retry_after] ELSE EmptyDict)

StatusInit ==
    /\ JobInit
    /\ \E endpoint \in {"orchestrate_status", "ask_status"}, content \in StatusContents :
         lp = [pc |-> "request", endpoint |-> endpoint, content |-> content]

\* one GET of orchestrate/status or ask/status with the job_id of the record
StatusRequest ==
    /\ lp.pc = "request"
    /\ lp' = [pc |-> "responded", endpoint |-> lp.endpoint, content |-> lp.content,
              response |-> StatusResponse(lp.content,
                                          GetStorageClients(<<CopilotQueue>>))]
    /\ UNCHANGED <<clock, blobs, queue, w, lastSet>>

StatusNext == StatusRequest

StatusSpec == StatusInit /\ [][StatusNext]_vars

\* the client status the table of the endpoints gives a stored status and tool
ClientStatus(status, tool) ==
    CASE status = "queued" -> "queued"
      [] status = "running" /\ tool = "" -> "running"
      [] status = "running" /\ tool # "" -> "tool"
      [] status \in {"completed", "done"} -> "completed"
      [] status = "error" -> "failed"
      [] OTHER -> "unknown"

\* C26: a status request answers with the client status of the table (queued,
\* running, tool, completed, failed with the error detail in the message, unknown),
\* and carries a Retry-After hint exactly when that status is neither completed nor
\* failed.
StatusIsMappedForClient ==
    lp.pc = "responded" =>
       /\ "status" \in DOMAIN lp.response
       /\ lp.response.status = ClientStatus(LowerStatus(lp.content.status), lp.content.tool)
       /\ (lp.response.status = "failed" /\ "error" \in DOMAIN lp.content)
             => lp.response.message = "Error: " \o lp.content.error
       /\ ("retry_after" \in DOMAIN lp.response)
             <=> lp.response.status \notin {"completed", "failed"}

\* what holds of C26: the mapping the endpoints would apply agrees with the table
MappingAgreesWithTable ==
    \A content \in StatusContents :
       LET mapped == StatusMapping(content) IN
         /\ mapped.status = ClientStatus(LowerStatus(content.status), content.tool)
         /\ (mapped.status = "failed" /\ "error" \in DOMAIN content)
               => mapped.message = "Error: " \o content.error
         /\ (mapped.retry_after # 0) <=> mapped.status \notin {"completed", "failed"}

StatusRequestFails ==
    /\ lp.pc = "responded"
    /\ lp.content.status = "queued"
    /\ lp.response = [code |-> 500, ok |-> FALSE, error |-> "TypeError"]

-----------------------------------------------------------------------------
\* The Mode Router: _route_mode(prompt, has_tools, constraints, allowed_tools).

deep_markers ==
    {"plan", "multi-step", "derive", "prove", "why", "strategy", "chain of thought",
     "plan d'action", "multi-etapes", "multi étapes", "démontrer", "demontrer",
     "prouve", "pourquoi", "stratégie", "strategie", "raisonnement",
     "chaine de raisonnement", "chaîne de raisonnement", "réfléchis", "reflechis",
     "pas à pas", "pas a pas", "analyse détaillée", "explication détaillée"}

\* the words the prompts of the model are made of, and the markers that occur in
\* the lower-cased word as substrings
PromptWords == {"hi", "Why", "airplane", "sky"}

\* the marker phrases that occur in a text that is itself a marker phrase
PhrasesIn(text) ==
    CASE text = "plan d'action" -> {"plan", "plan d'action"}
      [] text \in {"chaine de raisonnement", "chaîne de raisonnement"} ->
           {"raisonnement", text}
      [] text \in deep_markers -> {text}
      [] OTHER -> {}

MarkersIn(word) ==
    CASE word = "Why" -> {"why"}
      [] word = "airplane" -> {"plan"}
      [] OTHER -> PhrasesIn(word)

PromptLengths == {20, 159, 160, 800, 801}

\* a prompt: its words and its length in characters
Prompts == [words : {<<word>> : word \in PromptWords}, length : PromptLengths]

\* any(m in text for m in deep_markers), text = (prompt or "").lower()
HasDeepMarker(prompt) ==
    \E k \in 1..Len(prompt.words) : MarkersIn(prompt.words[k]) \cap deep_markers # {}

\* the values of preferReasoning / prefer_reasoning, as str(value); "" when absent
PreferChoices == {"", "True", "False", "yes"}

\* the values of maxLatencyMs: absent, a number, or a text int() rejects
LatencyChoices ==
    {[kind |-> "absent", value |-> 0], [kind |-> "int", value |-> 1000],
     [kind |-> "int", value |-> 1499], [kind |-> "int", value |-> 1500],
     [kind |-> "text", value |-> 0]}

RouteConstraints ==
    [preferReasoning : PreferChoices, prefer_reasoning : {"", "True"},
     maxLatencyMs : LatencyChoices]

RouteAllowLists == {NoneList, << >>, <<"search">>}

\* prefer_reasoning: either spelling of the flag is an on-word
PreferReasoning(constraints) ==
    \/ Lower(constraints.preferReasoning) \in OnWords
    \/ Lower(constraints.prefer_reasoning) \in OnWords

\* max_latency_ms is not None and max_latency_ms < 1500; a value int() rejects is None
TightLatencyInclusive(latency) == latency.kind = "int" /\ latency.value <= 1500

TightLatency(latency) == latency.kind = "int" /\ latency.value < 1500

\* len(prompt) < 160
IsShortUnder100(length) == length < 100

IsShort(length) == length < 160

\* has_tools and allowed_tools
ToolsModeIgnoringAllowList(has_tools, allowed_tools) == has_tools

ToolsMode(has_tools, allowed_tools) ==
    has_tools /\ allowed_tools # NoneList /\ allowed_tools # << >>

RouteMode(prompt, has_tools, constraints, allowed_tools) ==
    IF ToolsMode(has_tools, allowed_tools) THEN "tools"
    ELSE IF PreferReasoning(constraints) \/ HasDeepMarker(prompt) \/ prompt.length > 800
         THEN (IF TightLatency(constraints.maxLatencyMs) THEN "standard" ELSE "deep")
    ELSE IF IsShort(prompt.length) THEN "trivial"
    ELSE "standard"

RouteInit ==
    /\ JobInit
    /\ \E prompt \in Prompts, has_tools \in BOOLEAN, constraints \in RouteConstraints,
          allowed_tools \in RouteAllowLists :
         lp = [pc |-> "request", prompt |-> prompt, has_tools |-> has_tools,
               constraints |-> constraints, allowed_tools |-> allowed_tools]

\* mode = _route_mode(prompt, has_tools, constraints, allowed_tools)
Route ==
    /\ lp.pc = "request"
    /\ lp' = [pc |-> "routed", prompt |-> lp.prompt, has_tools |-> lp.has_tools,
              constraints |-> lp.constraints, allowed_tools |-> lp.allowed_tools,
              mode |-> RouteMode(lp.prompt, lp.has_tools, lp.constraints,
                                 lp.allowed_tools)]
    /\ UNCHANGED <<clock, blobs, queue, w, lastSet>>

RouteNext == Route

RouteSpec == RouteInit /\ [][RouteNext]_vars

\* the request states a preference for reasoning
AsksReasoning ==
    \/ lp.constraints.preferReasoning \in {"True", "yes"}
    \/ lp.constraints.prefer_reasoning = "True"

\* the prompt of the request holds a marker phrase
PromptHasMarker ==
    \E k \in 1..Len(lp.prompt.words) : lp.prompt.words[k] \in {"Why", "airplane"}

\* the request carries a latency budget below 1500 ms
BudgetBelow1500 ==
    lp.constraints.maxLatencyMs.kind = "int" /\ lp.constraints.maxLatencyMs.value < 1500

\* the request has tools and a non-empty allow-list
ToolsAllowed == lp.has_tools /\ lp.allowed_tools \notin {NoneList, << >>}

\* C27 as stated: every prompt shorter than 160 characters, without tools and
\* without reasoning preference, is routed to "trivial".
ShortPromptIsTrivial ==
    (lp.pc = "routed" /\ lp.prompt.length < 160 /\ ~lp.has_tools /\ ~AsksReasoning)
       => lp.mode = "trivial"

\* C27: every prompt shorter than 160 characters that holds no reasoning marker
\* phrase, without tools and without reasoning preference, is routed to "trivial".
ShortPlainPromptIsTrivial ==
    (/\ lp.pc = "routed" /\ lp.prompt.length < 160 /\ ~PromptHasMarker
     /\ ~lp.has_tools /\ ~AsksReasoning)
       => lp.mode = "trivial"

ShortPromptRoutedTrivial ==
    /\ lp.pc = "routed"
    /\ lp.prompt = [words |-> <<"hi">>, length |-> 159]
    /\ ~lp.has_tools /\ ~AsksReasoning
    /\ lp.mode = "trivial"

\* C28 as stated: a prompt with a reasoning marker phrase is routed to "deep" when
\* no latency budget below 1500 is present and to "standard" when one is.
MarkerPromptIsDeep ==
    (lp.pc = "routed" /\ PromptHasMarker)
       => lp.mode = IF BudgetBelow1500 THEN "standard" ELSE "deep"

\* C28: a prompt with a reasoning marker phrase, in a request that does not have
\* both tools and a non-empty allow-list, is routed to "deep" when no latency budget
\* below 1500 is present and to "standard" when one is.
MarkerPromptIsDeepWithoutTools ==
    (lp.pc = "routed" /\ PromptHasMarker /\ ~ToolsAllowed)
       => lp.mode = IF BudgetBelow1500 THEN "standard" ELSE "deep"

MarkerPromptAtTheBudgetLimit ==
    /\ lp.pc = "routed"
    /\ lp.prompt.words = <<"Why">> /\ lp.prompt.length = 20
    /\ ~lp.has_tools
    /\ lp.constraints.maxLatencyMs = [kind |-> "int", value |-> 1500]
    /\ lp.mode = "deep"

\* C29: a request with tools and a non-empty allow-list is routed to "tools",
\* whatever its prompt, reasoning preference and latency budget; a request without
\* tools, or with an empty or absent allow-list, is never routed to "tools".
ToolsModeExactlyWhenAllowed ==
    lp.pc = "routed" => (lp.mode = "tools" <=> ToolsAllowed)

LongMarkerPromptRoutedToTools ==
    /\ lp.pc = "routed"
    /\ lp.prompt = [words |-> <<"Why">>, length |-> 801]
    /\ lp.has_tools /\ lp.allowed_tools = <<"search">>
    /\ lp.constraints.preferReasoning = "True"
    /\ lp.constraints.maxLatencyMs = [kind |-> "int", value |-> 1000]
    /\ lp.mode = "tools"

-----------------------------------------------------------------------------
\* The start endpoints orchestrate_start and ask_start.

StartEndpoints == {"orchestrate_start", "ask_start"}

\* the request bodies: prompt, model, user_id and allow-list
StartBodies ==
    [prompt : {<< >>, <<"hello">>}, model : {NoneStr, "gpt-4.1"},
     user_id : UserIds, allowed_tools : AllowedChoices]

\* "type" of the message an endpoint builds
MessageType(endpoint) == IF endpoint = "orchestrate_start" THEN "orchestrate" ELSE "ask"

\* what the handler does once it holds the storage clients: the record is uploaded
\* queued, then one message is sent on the queue of the clients
StartEffects(endpoint, body, storage) ==
    <<[op |-> "upload_blob", blob |-> "job.json",
       payload |-> [status |-> "queued", progress |-> 0, tool |-> << >>]],
      [op |-> "send_message", queue |-> storage.queue,
       message |-> [job_id |-> "job", body |-> body, type |-> MessageType(endpoint)]]>>

\* the response of a start request and the storage operations made before it
StartOutcome(endpoint, body) ==
    IF body.prompt = << >>
    THEN [code |-> 400, ok |-> FALSE, error |-> "Missing 'prompt'", effects |-> << >>]
    ELSE LET storage == GetStorageClients(<<CopilotQueue>>) IN
         IF storage.raised
         THEN [code |-> 500, ok |-> FALSE, error |-> storage.error, effects |-> << >>]
         ELSE [code |-> 200, ok |-> TRUE, job_id |-> "job", status |-> "queued",
               effects |-> StartEffects(endpoint, body, storage)]

StartInit ==
    /\ JobInit
    /\ \E endpoint \in StartEndpoints, body \in StartBodies :
         lp = [pc |-> "request", endpoint |-> endpoint, body |-> body]

\* one POST of orchestrate/start or ask/start
StartRequest ==
    /\ lp.pc = "request"
    /\ lp' = [pc |-> "responded", endpoint |-> lp.endpoint, body |-> lp.body,
              response |-> StartOutcome(lp.endpoint, lp.body)]
    /\ UNCHANGED <<clock, blobs, queue, w, lastSet>>

StartNext == StartRequest

StartSpec == StartInit /\ [][StartNext]_vars

\* C30: a submission with a non-empty prompt is answered with a job id and status
\* queued, after the record was created queued with progress 0 and then exactly one
\* message {job_id, body, type} was sent on the queue mcpjobs-copilot.
SubmissionCreatesRecordThenMessage ==
    (lp.pc = "responded" /\ lp.body.prompt # << >>) =>
       /\ lp.response.code = 200
       /\ "job_id" \in DOMAIN lp.response
       /\ lp.response.status = "queued"
       /\ Len(lp.response.effects) = 2
       /\ lp.response.effects[1].op = "upload_blob"
       /\ lp.response.effects[1].payload.status = "queued"
       /\ lp.response.effects[1].payload.progress = 0
       /\ lp.response.effects[2].op = "send_message"
       /\ lp.response.effects[2].queue = "mcpjobs-copilot"
       /\ lp.response.effects[2].message.job_id = lp.response.job_id

\* what holds of C30: a submission without prompt is refused with 400 and leaves no
\* record and no message
EmptyPromptRefused ==
    (lp.pc = "responded" /\ lp.body.prompt = << >>)
       => lp.response.code = 400 /\ lp.response.effects = << >>

SubmissionFails ==
    /\ lp.pc = "responded"
    /\ lp.body.prompt = <<"hello">>
    /\ lp.response.code = 500
    /\ lp.response.error = "TypeError"
    /\ lp.response.effects = << >>

-----------------------------------------------------------------------------
\* The streaming branch of queue_trigger, on a stream long enough to reach the cap.

MaxStreamDeltas == 48

\* the increments the stream delivers: the first ones vary, the later ones repeat
StreamDeltas(received) == IF received < 2 THEN {"d", "e"} ELSE {"d"}

\* progress_value = min(95, progress_value + 2)
NextProgressUncapped(progress_value) == progress_value + 2

NextProgress(progress_value) == Min(95, progress_value + 2)

StreamInit ==
    /\ clock = 1
    /\ queue = [j \in JobIds |-> NoMessage]
    /\ w = [j \in JobIds |-> Idle("none")]
    /\ lastSet = {}
    /\ \E ca \in {NoTime, 1} :
         /\ blobs = [j \in JobIds |-> RunningPayload(ca, 1)]
         /\ lp = [pc |-> "streaming", created_at |-> ca, progress_value |-> 1,
                  partial_chunks |-> << >>, events |-> 0]

\* a response.output_text.delta event with a non-empty delta
StreamDelta ==
    /\ lp.pc = "streaming"
    /\ Len(lp.partial_chunks) < MaxStreamDeltas
    /\ \E delta \in StreamDeltas(Len(lp.partial_chunks)) :
         LET chunks == Append(lp.partial_chunks, delta)
             progress == NextProgress(lp.progress_value)
         IN  /\ lp' = [lp EXCEPT !.partial_chunks = chunks, !.progress_value = progress,
                                 !.events = Min(2, @ + 1)]
             /\ blobs' = [j \in JobIds |->
                            RunningUpdate(progress, chunks, lp.created_at, 1, clock)]
    /\ UNCHANGED <<clock, queue, w, lastSet>>

\* any other event, or a delta that is empty: nothing is written
StreamOtherEvent ==
    /\ lp.pc = "streaming"
    /\ lp.events < 2
    /\ lp' = [lp EXCEPT !.events = 2]
    /\ UNCHANGED <<clock, blobs, queue, w, lastSet>>

\* the stream ends and the result is written
StreamResult ==
    /\ lp.pc = "streaming"
    /\ \E text \in {NoneText, <<"final">>} :
         LET output_text == IF Truthy(text) THEN text ELSE lp.partial_chunks IN
           blobs' = [j \in JobIds |-> ResultPayload(output_text, lp.created_at, 1, clock)]
    /\ lp' = [lp EXCEPT !.pc = "done"]
    /\ UNCHANGED <<clock, queue, w, lastSet>>

StreamNext == StreamDelta \/ StreamOtherEvent \/ StreamResult

StreamSpec == StreamInit /\ [][StreamNext]_vars

\* C31: every running update written after an increment has progress at most 95 and
\* at least the progress of the update before it, and its partial_text is the
\* partial_text before it followed by the increment; progress 100 is in the final
\* record only, whose partial_text is empty.
StreamingUpdatesGrow ==
    /\ [][(lp.pc = "streaming" /\ lp'.pc = "streaming" /\ blobs' # blobs) =>
            \A j \in JobIds :
              /\ blobs'[j].status = "running"
              /\ blobs'[j].progress <= 95
              /\ blobs'[j].progress >= blobs[j].progress
              /\ Len(blobs'[j].partial_text) = Len(blobs[j].partial_text) + 1
              /\ SubSeq(blobs'[j].partial_text, 1, Len(blobs[j].partial_text))
                    = blobs[j].partial_text
              /\ blobs'[j].partial_text[Len(blobs'[j].partial_text)] \in {"d", "e"}]_vars
    /\ [](\A j \in JobIds :
            blobs[j].progress = 100 <=> (lp.pc = "done" /\ blobs[j].status = "completed"))
    /\ [](lp.pc = "done" => \A j \in JobIds : blobs[j].partial_text = << >>)

StreamAtTheCap ==
    /\ lp.pc = "streaming"
    /\ Len(lp.partial_chunks) = 48
    /\ \A j \in JobIds :
         /\ blobs[j].progress = 95
         /\ Len(blobs[j].partial_text) = 48
         /\ blobs[j].partial_text[1] = "e" /\ blobs[j].partial_text[2] = "d"

-----------------------------------------------------------------------------
\* The classic-tools branch of mcp_process_worker against a generation service
\* that wants its tools in successive rounds.

MaxRounds == 2

\* the calls of one round, and what the service wants round after round
ClassicRounds == UNION {[1..n -> {"search_web", "list_images"}] : n \in 1..MaxToolCalls}
ServicePlans == UNION {[1..r -> ClassicRounds] : r \in 0..MaxRounds}

\* the follow-up completion is created without tools: however many rounds the
\* service still wants, the reply is text
FollowUp(wanted) == << >>

ClassicInit ==
    /\ JobInit
    /\ \E plan \in ServicePlans :
         lp = [pc |-> "start", plan |-> plan, wanted |-> plan, pending |-> << >>,
               executed |-> << >>, updates |-> << >>]

\* _update_job_status(running, 20), then chat.completions.create(tools=classic_tools)
ClassicFirstCall ==
    /\ lp.pc = "start"
    /\ lp' = [lp EXCEPT
          !.updates = Append(@, [progress |-> 20, tool |-> << >>]),
          !.pc = IF lp.wanted = << >> THEN "finalizing" ELSE "tools",
          !.pending = IF lp.wanted = << >> THEN << >> ELSE Head(lp.wanted),
          !.wanted = IF lp.wanted = << >> THEN << >> ELSE Tail(lp.wanted)]
    /\ UNCHANGED <<clock, blobs, queue, w, lastSet>>

\* for tc in msg.tool_calls: execute_tool_call, then _update_job_status(running, 50, tool)
ClassicExecTool ==
    /\ lp.pc = "tools"
    /\ LET name == Head(lp.pending) IN
         lp' = [lp EXCEPT
            !.executed = Append(@, name),
            !.updates = Append(@, [progress |-> 50, tool |-> <<name>>]),
            !.pending = Tail(@),
            !.pc = IF Tail(lp.pending) = << >> THEN "followup" ELSE "tools"]
    /\ UNCHANGED <<clock, blobs, queue, w, lastSet>>

\* follow_up = chat.completions.create(messages + [msg] + tool_messages)
ClassicFollowUp ==
    /\ lp.pc = "followup"
    /\ LET wanted == FollowUp(lp.wanted) IN
         lp' = [lp EXCEPT
            !.pc = IF wanted = << >> THEN "finalizing" ELSE "tools",
            !.pending = IF wanted = << >> THEN << >> ELSE Head(wanted),
            !.wanted = IF wanted = << >> THEN << >> ELSE Tail(wanted)]
    /\ UNCHANGED <<clock, blobs, queue, w, lastSet>>

\* _update_job_status(running, 90, "Finalizing response...")
ClassicFinalizing ==
    /\ lp.pc = "finalizing"
    /\ lp' = [lp EXCEPT !.pc = "done",
                        !.updates = Append(@, [progress |-> 90, tool |-> << >>])]
    /\ UNCHANGED <<clock, blobs, queue, w, lastSet>>

ClassicNext == ClassicFirstCall \/ ClassicExecTool \/ ClassicFollowUp \/ ClassicFinalizing

ClassicSpec == ClassicInit /\ [][ClassicNext]_vars

\* the updates of a run that executed the given tools
UpdatesFor(names) ==
    <<[progress |-> 20, tool |-> << >>]>>
      \o [k \in 1..Len(names) |-> [progress |-> 50, tool |-> <<names[k]>>]]
      \o <<[progress |-> 90, tool |-> << >>]>>

\* C32: with classic tools in the request the worker executes the tool calls of every
\* round the generation service asks for and writes progress 20, then 50 with the
\* tool for each tool, then 90 before the final record.
AllRoundsExecuted ==
    lp.pc = "done" =>
       /\ lp.executed = Flatten(lp.plan)
       /\ lp.updates = UpdatesFor(Flatten(lp.plan))

\* what holds of C32: the calls of the first round are all executed, in order, with
\* the updates 20, 50 per tool and 90
FirstRoundExecuted ==
    lp.pc = "done" =>
       LET first == IF lp.plan = << >> THEN << >> ELSE lp.plan[1] IN
         /\ lp.executed = first
         /\ lp.updates = UpdatesFor(first)

SecondRoundDropped ==
    /\ lp.pc = "done"
    /\ lp.plan = <<<<"search_web">>, <<"list_images">>>>
    /\ lp.executed = <<"search_web">>

-----------------------------------------------------------------------------
\* Two jobs processed at the same time: jobA by mcp_process_worker, jobB by
\* queue_trigger.

JobA == "jobA"
JobB == "jobB"
PairJobs == {JobA, JobB}

QueuedPayload ==
    [status |-> "queued", progress |-> 0, message |-> <<"preparing">>, tool |-> << >>,
     partial_text |-> << >>, final_text |-> << >>, mode |-> "mcp",
     selected_model |-> BodyModel, createdAt |-> 1, updatedAt |-> 1]

\* a message that is delivered for the last time (its earlier deliveries ended
\* before the first write)
PairMessage(q, allowed, stream, url) ==
    [state |-> "visible", queue |-> q, type |-> "mcp", dequeued |-> MaxDeliveries - 1,
     body |-> [allowed_tools |-> allowed, stream |-> stream, server_url |-> url,
               mode |-> "mcp"]]

PairInit ==
    /\ clock = 1
    /\ lastSet = {}
    /\ lp = LoopIdle
    /\ w = [j \in PairJobs |-> Idle("none")]
    /\ blobs = [j \in PairJobs |-> QueuedPayload]
    /\ \E stream \in {NoneStr, "false"} :
         queue = [j \in PairJobs |->
                    IF j = JobA THEN PairMessage(CopilotQueue, <<"*">>, NoneStr, TRUE)
                    ELSE PairMessage(PlainQueue, NoneList, stream, FALSE)]

PairNext ==
    \E j \in PairJobs :
       \/ McpStart(j) \/ McpBranch(j) \/ McpGenerate(j) \/ McpExecTool(j)
       \/ McpFollowUp(j) \/ McpFinalizing(j) \/ McpFinal(j) \/ McpHandler(j)
       \/ QtStart(j) \/ QtRunTools(j) \/ QtDelta(j) \/ QtStreamEnd(j)
       \/ QtResult(j) \/ QtHandler(j)

PairSpec == PairInit /\ [][PairNext]_vars

\* the records queue_trigger can leave for jobB when nothing else runs: a result
\* with one of the texts the generation can end with, or the error record
SoloTexts ==
    Contents \cup {<<"error:">> \o ExcMsg}
       \cup UNION {[1..n -> Deltas] : n \in 0..(MaxDeltas + 1)}

SoloRecords ==
    {SansTime(ResultPayload(text, 1, 1, 1)) : text \in SoloTexts}
       \cup {[status |-> "error", error |-> ExcMsg]}

\* C33: a step of the worker of one job changes the record, the message and the
\* worker state of that job only, in every interleaving; and the record jobB has
\* when its worker has ended is one it has when jobB is processed alone.
JobsDoNotInterfere ==
    /\ [][\E j \in PairJobs : \A k \in PairJobs \ {j} :
             blobs'[k] = blobs[k] /\ w'[k] = w[k] /\ queue'[k] = queue[k]]_vars
    /\ []((w[JobB].pc = "idle" /\ w[JobB].last = "returned")
            => SansTime(blobs[JobB]) \in SoloRecords)

BothJobsInTheMiddle ==
    /\ w[JobA].pc = "tools"
    /\ blobs[JobA].status = "running" /\ blobs[JobA].progress = 20
    /\ w[JobB].pc = "qt_run" /\ Len(w[JobB].chunks) = 1
    /\ blobs[JobB].status = "running" /\ blobs[JobB].progress = 3
    /\ blobs[JobB].partial_text = <<"d">>

-----------------------------------------------------------------------------
\* C34: every batch passed to submit_tool_outputs holds exactly one output per tool
\* call of the response it answers, in the order of the calls, each with the id of
\* its call (mcp, classic and successful, classic and failed alike), and the
\* response_id of the submission is the id of the response that requested the calls.
EveryBatchAnswersItsCalls ==
    /\ [](lp.submits > 0 =>
            /\ Len(lp.last.batch) = Len(lp.last.answered)
            /\ \A k \in 1..Len(lp.last.answered) :
                 /\ lp.last.batch[k].tool_call_id = lp.last.answered[k].id
                 /\ lp.last.answered[k].id = <<lp.last.response_id, k>>)
    /\ [][lp'.submits # lp.submits =>
            /\ lp.response.status = "requires_action"
            /\ lp'.last.response_id = lp.response.id]_vars

SecondBatchOfMcpAndFailedCall ==
    /\ lp.submits = 2
    /\ lp.last.response_id = 2
    /\ Len(lp.last.answered) = 2
    /\ lp.last.answered[1].type = "mcp"
    /\ lp.last.answered[2].name = ToolB
    /\ lp.last.batch = <<[tool_call_id |-> <<2, 1>>, output |-> << >>],
                         [tool_call_id |-> <<2, 2>>, output |-> ToolFailed]>>

-----------------------------------------------------------------------------
\* the statuses a worker writes with its final record: mcp_process_worker writes
\* completed or failed, queue_trigger completed or error
FinalStatuses == {"completed", "failed", "error"}

\* C35: a status request on a record whose status is one a worker writes as final
\* (completed, failed, error) answers with the client status completed or failed
\* and no Retry-After hint, never with unknown.
FinalRecordObservedAsTerminal ==
    (lp.pc = "responded" /\ lp.content.status \in FinalStatuses) =>
       /\ "status" \in DOMAIN lp.response
       /\ lp.response.status \in {"completed", "failed"}
       /\ "retry_after" \notin DOMAIN lp.response

\* what holds of C35: the mapping gives completed for completed and failed for error
CompletedAndErrorAreTerminal ==
    \A content \in StatusContents :
       content.status \in {"completed", "error"} =>
          /\ StatusMapping(content).status \in {"completed", "failed"}
          /\ StatusMapping(content).retry_after = 0

\* the mapping gives unknown, with a retry value, for a stored failed
FailedIsMappedToUnknown ==
    \A content \in StatusContents :
       content.status = "failed" =>
          /\ StatusMapping(content).status = "unknown"
          /\ StatusMapping(content).retry_after = 5

FinalRecordRequestFails ==
    /\ lp.pc = "responded"
    /\ lp.content.status = "failed"
    /\ lp.response.code = 500
    /\ "status" \notin DOMAIN lp.response

-----------------------------------------------------------------------------
\* The second Mode Router, _route_mode of blueprint.py, next to the one of
\* services/routing.py.

\* a marker list without the French phrases
deep_markers_english ==
    {"plan", "multi-step", "derive", "prove", "why", "strategy", "chain of thought"}

blueprint_deep_markers ==
    {"plan", "multi-step", "derive", "prove", "why", "strategy", "chain of thought",
     "plan d'action", "multi-etapes", "multi étapes", "démontrer", "demontrer", "prouve",
     "pourquoi", "stratégie", "strategie", "raisonnement", "chaine de raisonnement",
     "chaîne de raisonnement", "réfléchis", "reflechis", "pas à pas", "pas a pas",
     "analyse détaillée", "explication détaillée"}

BlueprintRouteMode(prompt, has_tools, constraints, allowed_tools) ==
    LET allowed == allowed_tools # NoneList /\ allowed_tools # << >>
        prefer_reasoning ==
           \/ Lower(constraints.preferReasoning) \in {"1", "true", "yes", "on"}
           \/ Lower(constraints.prefer_reasoning) \in {"1", "true", "yes", "on"}
        max_latency_ms ==
           IF constraints.maxLatencyMs.kind = "int"
           THEN constraints.maxLatencyMs.value ELSE -1      \* -1: None
        any_marker ==
           \E k \in 1..Len(prompt.words) :
              \E m \in blueprint_deep_markers : m \in MarkersIn(prompt.words[k])
    IN  IF has_tools /\ allowed THEN "tools"
        ELSE IF prefer_reasoning \/ any_marker \/ prompt.length > 800
             THEN (IF max_latency_ms # -1 /\ max_latency_ms < 1500
                   THEN "standard" ELSE "deep")
        ELSE IF prompt.length < 160 THEN "trivial"
        ELSE "standard"

\* prompts holding one phrase of a marker list, or none
PhrasePrompts ==
    [words : {<<word>> : word \in deep_markers \cup blueprint_deep_markers \cup {"hi"}},
     length : PromptLengths]

BothInit ==
    /\ JobInit
    /\ \E prompt \in PhrasePrompts, has_tools \in BOOLEAN, constraints \in RouteConstraints,
          allowed_tools \in RouteAllowLists :
         lp = [pc |-> "request", prompt |-> prompt, has_tools |-> has_tools,
               constraints |-> constraints, allowed_tools |-> allowed_tools]

\* the same request routed by both implementations
RouteBoth ==
    /\ lp.pc = "request"
    /\ lp' = [pc |-> "routed", prompt |-> lp.prompt, has_tools |-> lp.has_tools,
              constraints |-> lp.constraints, allowed_tools |-> lp.allowed_tools,
              mode |-> RouteMode(lp.prompt, lp.has_tools, lp.constraints,
                                 lp.allowed_tools),
              blueprint_mode |-> BlueprintRouteMode(lp.prompt, lp.has_tools,
                                                    lp.constraints, lp.allowed_tools)]
    /\ UNCHANGED <<clock, blobs, queue, w, lastSet>>

BothNext == RouteBoth

BothSpec == BothInit /\ [][BothNext]_vars

\* C36: _route_mode of services/routing.py and _route_mode of blueprint.py return
\* the same mode for every prompt, has_tools flag, constraints map and allow-list.
RoutersAgree == lp.pc = "routed" => lp.blueprint_mode = lp.mode

FrenchMarkerRoutedDeepByBoth ==
    /\ lp.pc = "routed"
    /\ lp.prompt = [words |-> <<"pas a pas">>, length |-> 20]
    /\ lp.has_tools /\ lp.allowed_tools = << >>
    /\ lp.constraints.maxLatencyMs = [kind |-> "int", value |-> 1500]
    /\ lp.mode = "deep" /\ lp.blueprint_mode = "deep"

-----------------------------------------------------------------------------
\* the loop has used up its iterations and its response is still not final
LoopExhausted ==
    /\ lp.pc \in {"fallback", "synth"}
    /\ lp.i = max_loops
    /\ lp.response.status \in {"in_progress", "requires_action"}

-----------------------------------------------------------------------------
\* Conversation ids of submissions: orchestrate_start and ask_start generate an id
\* for a body with a user id and no conversation id.

MaxMemoryId == 2

\* the memory ids of the conversation documents stored for the user
StoredIds == {{}, {1}, 1..MaxMemoryId}

\* conversation_id of the body: absent, "init" in either case, or given
ConversationChoices == {NoneStr, "init", "Init", "u123_1"}

LowerInit(text) == IF text = "Init" THEN "init" ELSE text

RECURSIVE MaxOf(_)
MaxOf(ids) ==
    IF ids = {} THEN 0
    ELSE LET n == CHOOSE n \in ids : TRUE
             rest == MaxOf(ids \ {n})
         IN IF n > rest THEN n ELSE rest

\* get_next_memory_id: one more than the highest memory id stored; reads only
get_next_memory_id(stored) == MaxOf(stored) + 1

\* the conversation id the body carries after the lines that generate one;
\* `cosmos_ok`: the query of get_next_memory_id answered; `now`: int(time.time())
GeneratedConversationId(user_id, conv_raw, stored, cosmos_ok, now) ==
    IF user_id # << >> /\ (conv_raw = NoneStr \/ LowerInit(conv_raw) = "init")
    THEN <<user_id, IF cosmos_ok THEN get_next_memory_id(stored) ELSE now>>
    ELSE <<conv_raw>>

\* the response of a start request of `user_id` and the body its message would carry
IdOutcome(endpoint, user_id, conv_raw, stored, cosmos_ok, now) ==
    LET storage == GetStorageClients(<<CopilotQueue>>) IN
    IF storage.raised
    THEN [code |-> 500, ok |-> FALSE, error |-> storage.error]
    ELSE [code |-> 200, ok |-> TRUE, status |-> "queued",
          conversation_id |->
             GeneratedConversationId(user_id, conv_raw, stored, cosmos_ok, now)]

NotHandled == [code |-> 0]

IdInit ==
    /\ JobInit
    /\ \E stored \in StoredIds, user_id \in UserIds :
       \E subs \in [1..2 -> [endpoint : StartEndpoints, conv_raw : ConversationChoices]] :
         lp = [stored |-> stored, user_id |-> user_id,
               subs |-> [s \in 1..2 |-> [endpoint |-> subs[s].endpoint,
                                         conv_raw |-> subs[s].conv_raw,
                                         response |-> NotHandled]]]

\* one POST of orchestrate/start or ask/start; the two requests are handled in
\* either order, the second before any job of the first has run
IdSubmit(s) ==
    /\ lp.subs[s].response = NotHandled
    /\ \E cosmos_ok \in BOOLEAN :
         lp' = [lp EXCEPT !.subs[s].response =
                  IdOutcome(lp.subs[s].endpoint, lp.user_id, lp.subs[s].conv_raw,
                            lp.stored, cosmos_ok, clock)]
    /\ UNCHANGED <<clock, blobs, queue, w, lastSet>>

IdNext == \E s \in 1..2 : IdSubmit(s)

IdSpec == IdInit /\ [][IdNext]_vars

\* the submission carries a user id and no conversation id, or "init"
WantsNewConversation(s) ==
    /\ lp.user_id # << >>
    /\ lp.subs[s].conv_raw \in {NoneStr, "init", "Init"}

\* C38: two submissions of one user without conversation id (or with "init") are
\* given generated conversation ids, and the two ids differ, also when the second
\* is submitted before the job of the first has completed.
SubmissionsGetDistinctConversationIds ==
    (/\ WantsNewConversation(1) /\ WantsNewConversation(2)
     /\ lp.subs[1].response # NotHandled /\ lp.subs[2].response # NotHandled)
       => /\ "conversation_id" \in DOMAIN lp.subs[1].response
          /\ "conversation_id" \in DOMAIN lp.subs[2].response
          /\ lp.subs[1].response.conversation_id # lp.subs[2].response.conversation_id

\* what the lines that generate the id give: the id is read from the stored
\* documents alone, so until a turn is stored every submission of the user is given
\* the same id, one above the highest stored
GeneratedIdRepeatsUntilStored ==
    \A stored \in StoredIds, conv_raw \in {NoneStr, "init", "Init"}, now \in 1..MaxClock :
       GeneratedConversationId(<<"u123">>, conv_raw, stored, TRUE, now)
          = <<<<"u123">>, MaxOf(stored) + 1>>

BothSubmissionsFail ==
    /\ WantsNewConversation(1) /\ WantsNewConversation(2)
    /\ lp.subs[1].response = [code |-> 500, ok |-> FALSE, error |-> "TypeError"]
    /\ lp.subs[2].response = [code |-> 500, ok |-> FALSE, error |-> "TypeError"]

-----------------------------------------------------------------------------
\* The conversation turn of a job: after the final record the worker appends the
\* user and the assistant message to the conversation document; the message of the
\* job is delivered again when an invocation ends before the message is deleted.

TurnWorkers == {"mcp_process_worker", "queue_trigger"}

TurnPrompts == {<<"hello">>, <<"20", "°", "C">>}

\* conversation_id of the body: absent, "init", or the id of a conversation
TurnConversations == {NoneStr, "init", "u123_1"}

\* the messages of the conversation document before the job
EarlierMessages ==
    {<< >>,
     <<[role |-> "user", content |-> <<"hi">>],
       [role |-> "assistant", content |-> <<"welcome">>]>>}

\* _sanitize_text_for_cosmos: the degree sign is removed
Sanitize(text) == SelectSeq(text, LAMBDA token : token # "°")

\* upsert_conversation_turn: the messages of the document after the call
UpsertConversationTurn(messages, user_text, assistant_text) ==
    messages
      \o (IF user_text # << >>
          THEN <<[role |-> "user", content |-> Sanitize(user_text)]>> ELSE << >>)
      \o (IF assistant_text # << >>
          THEN <<[role |-> "assistant", content |-> Sanitize(assistant_text)]>>
          ELSE << >>)

\* the condition under which the worker saves the turn
SavesTurn(worker, user_id, conversation_id, output_text) ==
    /\ user_id # << >>
    /\ conversation_id # NoneStr
    /\ IF worker = "mcp_process_worker" THEN output_text # << >>
       ELSE conversation_id # "init"

TurnInit ==
    /\ JobInit
    /\ \E worker \in TurnWorkers, prompt \in TurnPrompts, user_id \in UserIds,
          conversation_id \in TurnConversations, earlier \in EarlierMessages :
         lp = [pc |-> "visible", worker |-> worker, prompt |-> prompt,
               user_id |-> user_id, conversation_id |-> conversation_id,
               dequeued |-> 0, final |-> FALSE, output_text |-> << >>,
               earlier |-> earlier, messages |-> earlier]

\* the queue hands the message to the worker
TurnDeliver ==
    /\ lp.pc = "visible"
    /\ lp.dequeued < MaxDeliveries
    /\ lp' = [lp EXCEPT !.pc = "running", !.dequeued = @ + 1]
    /\ UNCHANGED <<clock, blobs, queue, w, lastSet>>

\* the generation ends and the final record is written
TurnFinalRecord ==
    /\ lp.pc = "running"
    /\ \E output_text \in {<< >>, Answer} :
         lp' = [lp EXCEPT !.pc = "final", !.final = TRUE, !.output_text = output_text]
    /\ UNCHANGED <<clock, blobs, queue, w, lastSet>>

\* try: cosmos_upsert_conversation_turn(...) except: logged or passed
TurnSave ==
    /\ lp.pc = "final"
    /\ \E cosmos_ok \in BOOLEAN :
         lp' = [lp EXCEPT
                  !.pc = "saved",
                  !.messages =
                     IF cosmos_ok /\ SavesTurn(lp.worker, lp.user_id, lp.conversation_id,
                                               lp.output_text)
                     THEN UpsertConversationTurn(@, lp.prompt, lp.output_text)
                     ELSE @]
    /\ UNCHANGED <<clock, blobs, queue, w, lastSet>>

\* the function returns and the queue deletes the message
TurnReturn ==
    /\ lp.pc = "saved"
    /\ lp' = [lp EXCEPT !.pc = "deleted"]
    /\ UNCHANGED <<clock, blobs, queue, w, lastSet>>

\* the invocation ends without returning (the process dies, or the visibility
\* timeout passes): the message is visible again
TurnRedeliver ==
    /\ lp.pc \in {"running", "final", "saved"}
    /\ lp' = [lp EXCEPT !.pc = "visible"]
    /\ UNCHANGED <<clock, blobs, queue, w, lastSet>>

TurnNext ==
    \/ TurnDeliver
    \/ TurnFinalRecord
    \/ TurnSave
    \/ TurnReturn
    \/ TurnRedeliver

TurnSpec == TurnInit /\ [][TurnNext]_vars

\* the messages appended to the conversation since the job was submitted
Appended == SubSeq(lp.messages, Len(lp.earlier) + 1, Len(lp.messages))

\* C39: for a job with a user id and a conversation id the turn is appended to the
\* conversation at most once, however many times the message is delivered: the
\* messages after the earlier ones hold at most one user message and at most one
\* assistant message; and a turn is appended only after the final record is written.
TurnAppendedAtMostOnce ==
    /\ [](Len(SelectSeq(Appended, LAMBDA m : m.role = "user")) <= 1)
    /\ [](Len(SelectSeq(Appended, LAMBDA m : m.role = "assistant")) <= 1)
    /\ [][lp'.messages # lp.messages => lp.final]_vars

\* what holds of C39: every save follows a final record of the same invocation and
\* puts the user message, then the assistant message when there is one, after all
\* the messages the document held
TurnFollowsFinalRecord ==
    [][lp'.messages # lp.messages =>
         /\ lp.pc = "final" /\ lp.final
         /\ lp.user_id # << >> /\ lp.conversation_id # NoneStr
         /\ \E tail \in {<<[role |-> "user", content |-> Sanitize(lp.prompt)]>>,
                         <<[role |-> "user", content |-> Sanitize(lp.prompt)],
                           [role |-> "assistant", content |-> Sanitize(lp.output_text)]>>} :
              lp'.messages = lp.messages \o tail]_vars

TurnAppendedTwice ==
    /\ lp.pc = "deleted"
    /\ lp.dequeued = 2
    /\ lp.worker = "mcp_process_worker"
    /\ lp.earlier = << >>
    /\ lp.messages = <<[role |-> "user", content |-> <<"hello">>],
                        [role |-> "assistant", content |-> Answer],
                        [role |-> "user", content |-> <<"hello">>],
                        [role |-> "assistant", content |-> Answer]>>

====
